---------------------------- MODULE Spec2Model ----------------------------
(***************************************************************************)
(* Model of src/app.py, the Streamlit dashboard "Ethereum On-Chain         *)
(* Traction": the CSV loaders, the per-section KPI computations and the    *)
(* two "Section 8" rates pipelines.                                        *)
(*                                                                         *)
(* The script runs top to bottom once per page load; there is no           *)
(* concurrency.  Numbers are modelled as exact rationals (floating-point   *)
(* rounding is not modelled); a missing value (NaN / NaT) is an explicit   *)
(* element of every numeric domain.                                        *)
(***************************************************************************)
EXTENDS Integers, Sequences, FiniteSets, TLC

VARIABLES
    pc,             \* position of the script (or of the block under study)
    files,          \* run model: condition of every data file under data/
    loaded,         \* run model: the frame every loader call returned
    exc,            \* run model: the exception that ended the run, or NoExc
    msgs,           \* run model: st.info / st.warning messages emitted
    text,           \* delimiter model: the characters of the file
    head,           \* delimiter model: the first characters of the file
    seps,           \* delimiter model: separator chosen by each loader
    csv,            \* loader model: the data rows of the file, cells as text
    result,         \* loader model: the table the loader call returned
    result2,        \* loader model: the table a second call returned
    df_volcat,      \* rows of volume_category.csv
    df_active,      \* rows of active_addresses.csv as returned by its loader
    df_typology,    \* rows of user_typology.csv
    df_dex,         \* rows of dex_volume.csv
    df_bridge,      \* rows of bridged_volume.csv
    df_eth,         \* rows of eth_price.csv
    df_fees,        \* rows of fees_activity.csv
    df_etf,         \* rows of etf_flows.csv
    df_rates,       \* rows of rates_expectations.csv
    df_fed,         \* rows of fedfunds_history.csv
    metric,         \* section 2: the st.radio choice
    kpi,            \* the KPI values and KPI texts the block computed
    prob_col,       \* PROB column of rates_expectations.csv, as numbers
    r_PROB,         \* r["PROB"] of the first Section 8 after normalisation
    df_rates_PROB   \* df_rates["PROB"] of the second Section 8

vars == << pc, files, loaded, exc, msgs, text, head, seps, csv, result,
           result2, df_volcat, df_active,
           df_typology, df_dex, df_bridge, df_eth, df_fees, df_etf, df_rates, df_fed,
           metric, kpi,
           prob_col,
           r_PROB, df_rates_PROB >>

runVars   == << files, loaded, exc, msgs >>
loadVars  == << csv, result, result2 >>
delimVars == << text, head, seps, loadVars >>
tableVars == << df_volcat, df_active, df_typology, df_dex, df_bridge, df_eth,
                df_fees, df_etf, df_rates, df_fed, metric >>
probVars  == << prob_col, r_PROB, df_rates_PROB >>

-----------------------------------------------------------------------------
(***************************************************************************)
(* Numbers.  A float is <<n, d>> with d > 0 and gcd(n, d) = 1, so that     *)
(* equal numbers are equal values; <<0, 0>> is NaN.                        *)
(***************************************************************************)
NaN == << 0, 0 >>

IsNaN(x) == x[2] = 0

Abs(i) == IF i < 0 THEN -i ELSE i

RECURSIVE Gcd(_, _)
Gcd(a, b) == IF b = 0 THEN a ELSE Gcd(b, a % b)

\* the float n/d (d # 0), in lowest terms
Rat(n, d) ==
    LET g == Gcd(Abs(n), Abs(d))
        s == IF d < 0 THEN -1 ELSE 1
    IN  << (s * n) \div g, (s * d) \div g >>

Num(i) == << i, 1 >>

\* least common denominator of two floats
Lcd(x, y) == (x[2] \div Gcd(x[2], y[2])) * y[2]

\* the numerator of x over the denominator d, a multiple of x's own
Over(x, d) == x[1] * (d \div x[2])

\* float arithmetic: NaN is absorbing.  Common factors are cancelled before
\* a product is formed, so that the intermediate values stay small.
RatAdd(x, y) ==
    IF IsNaN(x) \/ IsNaN(y) THEN NaN
    ELSE LET d == Lcd(x, y) IN Rat(Over(x, d) + Over(y, d), d)

RatSub(x, y) ==
    IF IsNaN(x) \/ IsNaN(y) THEN NaN
    ELSE LET d == Lcd(x, y) IN Rat(Over(x, d) - Over(y, d), d)

RatMul(x, y) ==
    IF IsNaN(x) \/ IsNaN(y) THEN NaN
    ELSE LET g == Gcd(Abs(x[1]), y[2])
             h == Gcd(Abs(y[1]), x[2])
         IN  Rat((x[1] \div g) * (y[1] \div h), (x[2] \div h) * (y[2] \div g))

\* numpy / pandas float division: 0/0 is NaN; x/0 (x # 0) is +-inf, which is
\* folded into NaN here: both are "not a finite number", and no KPI that is
\* formatted divides by zero with a numerator other than 0.
RatDiv(x, y) ==
    IF IsNaN(x) \/ IsNaN(y) \/ y[1] = 0 THEN NaN
    ELSE RatMul(x, Rat(y[2], y[1]))

\* comparisons: every comparison with NaN is False, as in IEEE 754
RatLt(x, y) ==
    ~IsNaN(x) /\ ~IsNaN(y) /\ LET d == Lcd(x, y) IN Over(x, d) < Over(y, d)
RatGt(x, y) == RatLt(y, x)
RatLe(x, y) ==
    ~IsNaN(x) /\ ~IsNaN(y) /\ LET d == Lcd(x, y) IN Over(x, d) <= Over(y, d)

\* Series.dropna(): the non-missing values, in order
DropNa(s) == SelectSeq(s, LAMBDA x : ~IsNaN(x))

\* Series.sum(): NaN cells are skipped; the sum of no cell is 0
RECURSIVE SumSkipNa(_)
SumSkipNa(s) ==
    IF s = << >> THEN Num(0)
    ELSE IF IsNaN(Head(s)) THEN SumSkipNa(Tail(s))
    ELSE RatAdd(Head(s), SumSkipNa(Tail(s)))

\* Series.max(): NaN cells are skipped; NaN when nothing is left
RECURSIVE MaxSkipNa(_)
MaxSkipNa(s) ==
    IF s = << >> THEN NaN
    ELSE LET m == MaxSkipNa(Tail(s))
         IN  IF IsNaN(Head(s)) THEN m
             ELSE IF IsNaN(m) \/ RatGt(Head(s), m) THEN Head(s) ELSE m

\* sorted(values): insertion sort of a NaN-free sequence, ascending
RECURSIVE Insert(_, _)
Insert(x, s) ==
    IF s = << >> THEN << x >>
    ELSE IF RatLe(x, Head(s)) THEN << x >> \o s
    ELSE << Head(s) >> \o Insert(x, Tail(s))

RECURSIVE SortAsc(_)
SortAsc(s) == IF s = << >> THEN << >> ELSE Insert(Head(s), SortAsc(Tail(s)))

SeqsUpTo(S, n) == UNION { [1..k -> S] : k \in 0..n }

-----------------------------------------------------------------------------
(***************************************************************************)
(* Probability normalisation of the two Section 8 rates pipelines.        *)
(***************************************************************************)
MaxProbRows == 3

\* cell values of the PROB column: fractions, percents and a missing cell
ProbCells == { NaN, Num(0), Rat(1, 2), Rat(87, 100), Num(1), Rat(6, 5),
               Rat(8, 5), Num(2), Num(87), Num(100) }

\* mutant of AnyGtOne: the 1.5 threshold of the other pipeline
AnyGtOne_Threshold1_5(col) == \E i \in 1..Len(col) : RatGt(col[i], Rat(3, 2))

\* r["PROB"].dropna().gt(1).any()
AnyGtOne(col) == \E i \in 1..Len(col) : RatGt(col[i], Num(1))

\* r["PROB"] / 100.0, elementwise (NaN stays NaN)
Div100(col) == [ i \in 1..Len(col) |-> RatDiv(col[i], Num(100)) ]

\* first Section 8: "If looks like 0-100, scale to 0-1"
NormalizeProbS8a(col) == IF AnyGtOne(col) THEN Div100(col) ELSE col

\* np.nanpercentile(a, 95) with numpy's default linear interpolation:
\* position 0.95 * (n - 1) in the sorted non-missing values
Percentile95(col) ==
    LET s    == SortAsc(DropNa(col))
        n    == Len(s)
        lo   == (95 * (n - 1)) \div 100
        frac == Rat((95 * (n - 1)) % 100, 100)
    IN  IF n = 0 THEN NaN
        ELSE IF lo + 1 >= n THEN s[n]
        ELSE RatAdd(s[lo + 1], RatMul(frac, RatSub(s[lo + 2], s[lo + 1])))

\* second Section 8: "clean PROB to [0,1]"
NormalizeProbS8b(col) ==
    LET p95 == Percentile95(col)
    IN  IF ~IsNaN(p95) /\ RatGt(p95, Rat(3, 2)) THEN Div100(col) ELSE col


-----------------------------------------------------------------------------
(***************************************************************************)
(* Dates, texts and the helpers shared by the KPI blocks.                 *)
(***************************************************************************)
\* a Timestamp, as the number yyyymmdd; NaT is 0 and sorts below every date
NaT == 0
Date(y, m, d) == y * 10000 + m * 100 + d

RECURSIVE Pow10(_)
Pow10(k) == IF k = 0 THEN 1 ELSE 10 * Pow10(k - 1)

\* round(x, k) of a non-missing x as the format specification ".kf" does it:
\* to the nearest multiple of 10^-k, a tie going to the even neighbour
RoundTo(x, k) ==
    LET n == x[1] * Pow10(k)
        d == x[2]
        q == n \div d
        r == n - q * d
        up == r > d - r \/ (r = d - r /\ q % 2 = 1)
    IN  Rat(IF up THEN q + 1 ELSE q, Pow10(k))

\* f"{x:,.kf}": a NaN is written "nan", any other float as a rounded number
FmtFixed(x, k) ==
    IF IsNaN(x) THEN [ kind |-> "nan", val |-> NaN ]
    ELSE [ kind |-> "num", val |-> RoundTo(x, k) ]

\* column col of the rows of frame df, in row order
Column(df, col) == [ i \in 1..Len(df) |-> df[i][col] ]

\* df[df[col] == v], in row order; NaT equals nothing, itself included
RowsWhere(df, col, v) ==
    SelectSeq(df, LAMBDA row : row[col] = v /\ ~(col = "MONTH" /\ v = NaT))

\* df["MONTH"].max(): NaT cells are skipped; NaT when nothing is left
RECURSIVE MaxMonth(_)
MaxMonth(df) ==
    IF df = << >> THEN NaT
    ELSE LET m == MaxMonth(Tail(df))
         IN  IF Head(df).MONTH > m THEN Head(df).MONTH ELSE m

\* the keys of df.groupby("MONTH"): NaT is no group (dropna=True)
MonthsOf(df) == { df[i].MONTH : i \in 1..Len(df) } \ { NaT }

\* df.groupby("MONTH")[col].sum() at month m
MonthlySum(df, col, m) == SumSkipNa(Column(RowsWhere(df, "MONTH", m), col))

\* Series.max() of a set of floats (NaN when the set is empty)
MaxOfSet(S) ==
    IF S = {} THEN NaN
    ELSE CHOOSE x \in S : \A y \in S : RatLe(y, x)

\* df.groupby("MONTH")[col].sum().max()
PeakMonthlySum(df, col) ==
    MaxOfSet({ MonthlySum(df, col, m) : m \in MonthsOf(df) })

\* truth value of a float in "if x": 0.0 is falsy, everything else (NaN
\* included) is truthy
Truthy(x) == IsNaN(x) \/ x[1] # 0

-----------------------------------------------------------------------------
(***************************************************************************)
(* Section 1: Monthly On-Chain USD Volume by Category (lines 198-237).    *)
(***************************************************************************)
MaxVolRows == 3

VolMonths     == { Date(2025, 6, 1), Date(2025, 7, 1) }
VolCategories == { "DEX Trading", "DEX", "Lending" }
VolValues     == { Num(0), Num(5), Num(10), Num(12) }

VolRows == [ MONTH : VolMonths, CATEGORY : VolCategories,
             VOLUME_USD_BILLIONS : VolValues ]

\* mutant of DexShare: the category is matched as "DEX"
DexShare_MatchDEX(df, latest_month) ==
    LET d     == RowsWhere(df, "MONTH", latest_month)
        total == SumSkipNa(Column(d, "VOLUME_USD_BILLIONS"))
        dex   == SumSkipNa(Column(RowsWhere(d, "CATEGORY", "DEX"),
                                  "VOLUME_USD_BILLIONS"))
    IN  IF Truthy(total) THEN RatDiv(RatMul(Num(100), dex), total) ELSE NaN

\* lines 205-208: 100 * (DEX Trading volume) / (total volume) of the latest
\* month, NaN when that total is 0
DexShare(df, latest_month) ==
    LET d     == RowsWhere(df, "MONTH", latest_month)
        total == SumSkipNa(Column(d, "VOLUME_USD_BILLIONS"))
        dex   == SumSkipNa(Column(RowsWhere(d, "CATEGORY", "DEX Trading"),
                                  "VOLUME_USD_BILLIONS"))
    IN  IF Truthy(total) THEN RatDiv(RatMul(Num(100), dex), total) ELSE NaN

Section1Kpis(df) ==
    LET latest_month == MaxMonth(df)
        peak_total   == PeakMonthlySum(df, "VOLUME_USD_BILLIONS")
        dex_share    == DexShare(df, latest_month)
    IN  [ sec          |-> "1",
          latest_month |-> latest_month,
          peak_total   |-> peak_total,
          dex_share    |-> dex_share,
          peak_text    |-> FmtFixed(peak_total, 2),
          share_text   |-> FmtFixed(dex_share, 1) ]

\* "if not df_volcat.empty:" and the KPI part of its body
Section1 ==
    /\ pc = "sec1"
    /\ kpi' = IF df_volcat = << >> THEN [ sec |-> "1 skipped" ]
              ELSE Section1Kpis(df_volcat)
    /\ pc' = "done"
    /\ UNCHANGED << runVars, delimVars, tableVars, probVars >>

-----------------------------------------------------------------------------
(***************************************************************************)
(* Section 2: Monthly Active Addresses and Transactions by Sector         *)
(* (lines 247-298).  df_active is what load_active_activity returned: no  *)
(* missing MONTH, rows sorted by (MONTH, SECTOR).                         *)
(***************************************************************************)
MaxActiveRows == 3

ActMonths  == { Date(2025, 6, 1), Date(2025, 7, 1) }
\* the sectors, in the order str comparison gives them
SectorOrder == << "DEX Trading", "NFT Transfers", "Others" >>
ActSectors == { SectorOrder[i] : i \in 1..Len(SectorOrder) }
ActAddresses    == { Num(0), Num(1), Num(3) }
ActTransactions == { Num(0), Num(2) }
Metrics == { "Avg Daily Active Addresses", "Transactions" }

ActRows == [ MONTH : ActMonths, SECTOR : ActSectors,
             AVG_DAILY_ACTIVE_ADDRESSES : ActAddresses,
             TRANSACTIONS : ActTransactions ]

SectorRank(sec) == CHOOSE i \in 1..Len(SectorOrder) : SectorOrder[i] = sec

\* (MONTH, SECTOR) of row a sorts at or before that of row b
KeyLe(a, b) ==
    \/ a.MONTH < b.MONTH
    \/ a.MONTH = b.MONTH /\ SectorRank(a.SECTOR) <= SectorRank(b.SECTOR)

\* line 185: df.sort_values(["MONTH", "SECTOR"], kind="stable")
SortedByMonthSector(df) == \A i \in 1..(Len(df) - 1) : KeyLe(df[i], df[i + 1])

\* mutant of ReplaceNft: the 'NFT Transfers' rows are dropped
ReplaceNft_Dropped(df) == SelectSeq(df, LAMBDA row : row.SECTOR # "NFT Transfers")

\* line 256: data["SECTOR"].replace({"NFT Transfers": "Others"})
ReplaceNft(df) ==
    [ i \in 1..Len(df) |->
        [ df[i] EXCEPT !.SECTOR = IF @ = "NFT Transfers" THEN "Others" ELSE @ ] ]

\* the rows of df with key (m, sec)
Group(df, m, sec) == SelectSeq(df, LAMBDA row : row.MONTH = m /\ row.SECTOR = sec)

\* the (MONTH, SECTOR) keys of df in ascending order
RECURSIVE SortedKeys(_)
SortedKeys(K) ==
    IF K = {} THEN << >>
    ELSE LET k == CHOOSE a \in K :
                     \A b \in K : KeyLe([ MONTH |-> a[1], SECTOR |-> a[2] ],
                                        [ MONTH |-> b[1], SECTOR |-> b[2] ])
         IN  << k >> \o SortedKeys(K \ { k })

\* lines 258-265: groupby(["MONTH","SECTOR"]).agg(sum, sum).sort_values(...)
SumByMonthSector(df) ==
    LET keys == SortedKeys({ << df[i].MONTH, df[i].SECTOR >> : i \in 1..Len(df) })
    IN  [ j \in 1..Len(keys) |->
            LET g == Group(df, keys[j][1], keys[j][2])
            IN  [ MONTH  |-> keys[j][1],
                  SECTOR |-> keys[j][2],
                  AVG_DAILY_ACTIVE_ADDRESSES |->
                      SumSkipNa(Column(g, "AVG_DAILY_ACTIVE_ADDRESSES")),
                  TRANSACTIONS |-> SumSkipNa(Column(g, "TRANSACTIONS")) ] ]

\* lines 272-277
YCol(m) == IF m = "Avg Daily Active Addresses"
           THEN "AVG_DAILY_ACTIVE_ADDRESSES" ELSE "TRANSACTIONS"

\* lines 291-293: NaN unless the latest month has rows and a positive total
Sec2DexShare(d_last, y_col) ==
    LET total == SumSkipNa(Column(d_last, y_col))
        dex   == SumSkipNa(Column(RowsWhere(d_last, "SECTOR", "DEX Trading"), y_col))
    IN  IF d_last # << >> /\ RatGt(total, Num(0))
        THEN RatDiv(RatMul(Num(100), dex), total) ELSE NaN

Section2Kpis(df, m) ==
    LET data      == SumByMonthSector(ReplaceNft(df))
        y_col     == YCol(m)
        latest    == MaxMonth(data)
        d_last    == RowsWhere(data, "MONTH", latest)
        peak_val  == PeakMonthlySum(data, y_col)
        dex_share == Sec2DexShare(d_last, y_col)
    IN  [ sec        |-> "2",
          data       |-> data,
          latest     |-> latest,
          peak_val   |-> peak_val,
          dex_share  |-> dex_share,
          peak_text  |-> FmtFixed(peak_val, 0),
          \* line 296: (0 if pd.isna(dex_share) else dex_share)
          share_text |-> FmtFixed(IF IsNaN(dex_share) THEN Num(0) ELSE dex_share, 1) ]

\* "if not df_active.empty:"; the frame the loader returns always has the
\* four required columns, so the warning branch of line 251 is not taken
Section2 ==
    /\ pc = "sec2"
    /\ kpi' = IF df_active = << >> THEN [ sec |-> "2 skipped" ]
              ELSE Section2Kpis(df_active, metric)
    /\ pc' = "done"
    /\ UNCHANGED << runVars, delimVars, tableVars, probVars >>

-----------------------------------------------------------------------------
(***************************************************************************)
(* Section 3: User Activity & Sector Breadth (lines 352-380).             *)
(***************************************************************************)
MaxTypRows == 3

TypMonths == { Date(2025, 6, 1), Date(2025, 7, 1) }
UserTypes == { "Single-sector", "Multi-sector" }
ActivityLevels == { "Casual", "Power" }
TypUsers == { Num(0), Num(1), Num(3) }

TypRows == [ MONTH : TypMonths, USER_TYPE : UserTypes,
             ACTIVITY_LEVEL : ActivityLevels, UNIQUE_USERS : TypUsers ]

\* lines 354-355: USER_TYPE + " — " + ACTIVITY_LEVEL with a missing part
\* written "" and the separator stripped from the ends; a label is the
\* sequence of its non-empty parts
Label(row) == SelectSeq(<< row.USER_TYPE, row.ACTIVITY_LEVEL >>, LAMBDA part : part # "")

\* line 363: d_last.groupby("LABEL")["UNIQUE_USERS"].sum()
LabelTotals(d_last) ==
    { SumSkipNa(Column(SelectSeq(d_last, LAMBDA row : Label(row) = lab), "UNIQUE_USERS")) :
        lab \in { Label(d_last[i]) : i \in 1..Len(d_last) } }

\* line 365: 100 * totals.iloc[0] / totals.sum() if totals.sum() > 0 else nan,
\* totals sorted descending
TopShare(d_last) ==
    LET total == SumSkipNa(Column(d_last, "UNIQUE_USERS"))
    IN  IF RatGt(total, Num(0))
        THEN RatDiv(RatMul(Num(100), MaxOfSet(LabelTotals(d_last))), total)
        ELSE NaN

\* line 358: the "View" radio
TypViews == { "Absolute", "100% share" }

\* mutant of MonthSumOfRow: the total of the whole table
MonthSumOfRow_WholeTable(df, i) == SumSkipNa(Column(df, "UNIQUE_USERS"))

\* line 376: groupby("MONTH")["UNIQUE_USERS"].transform("sum") at row i; a row
\* without MONTH belongs to no group and gets NaN
MonthSumOfRow(df, i) ==
    IF df[i].MONTH = NaT THEN NaN ELSE MonthlySum(df, "UNIQUE_USERS", df[i].MONTH)

\* lines 371-380: one trace per LABEL, a point per row of the label with
\* x = MONTH and y = UNIQUE_USERS or, in the 100% view, its percentage of the
\* month's total.  A trace is the set of its points, each with the index of
\* its row; a y that is not finite (0/0, x/0) is NaN.
Fig3(df, view) ==
    [ lab \in { Label(df[i]) : i \in 1..Len(df) } |->
        { [ index |-> i,
            x     |-> df[i].MONTH,
            y     |-> IF view = "100% share"
                      THEN RatDiv(RatMul(Num(100), df[i].UNIQUE_USERS),
                                  MonthSumOfRow(df, i))
                      ELSE df[i].UNIQUE_USERS ] :
            i \in { j \in 1..Len(df) : Label(df[j]) = lab } } ]

Section3Kpis(df, view) ==
    LET latest    == MaxMonth(df)
        d_last    == RowsWhere(df, "MONTH", latest)
        top_share == TopShare(d_last)
    IN  [ sec        |-> "3",
          latest     |-> latest,
          top_share  |-> top_share,
          share_text |-> FmtFixed(top_share, 1),
          view       |-> view,
          fig3       |-> Fig3(df, view) ]

\* "if not df_typology.empty:" and the KPI and chart parts of its body
Section3 ==
    /\ pc = "sec3"
    /\ \E view \in TypViews :
           kpi' = IF df_typology = << >> THEN [ sec |-> "3 skipped" ]
                  ELSE Section3Kpis(df_typology, view)
    /\ pc' = "done"
    /\ UNCHANGED << runVars, delimVars, tableVars, probVars >>

-----------------------------------------------------------------------------
(***************************************************************************)
(* Growth % (sections 4 and 8).  The quotient by the 1e-9 floor exceeds   *)
(* the integers TLC computes with, so a growth is m * 10^e: e is 0 when   *)
(* the baseline itself is the divisor and 9 when the floor is.            *)
(***************************************************************************)
\* the literal 1e-9 of lines 401, 564 and 565
Eps == [ m |-> Num(1), e |-> -9 ]

\* 1e-9 > x, for a float x = n/d, computed without forming n * 10^9
EpsGt(x) ==
    /\ ~IsNaN(x)
    /\ \/ x[1] <= 0
       \/ x[2] \div x[1] > Pow10(-Eps.e)
       \/ x[2] \div x[1] = Pow10(-Eps.e) /\ x[2] % x[1] # 0

\* mutant of MaxWithEps: a floor of 1 instead of 1e-9
MaxWithEps_FloorOne(first) ==
    IF RatLt(first, Num(1)) THEN [ m |-> Num(1), e |-> 0 ] ELSE [ m |-> first, e |-> 0 ]

\* max(first, 1e-9): Python's max keeps its first argument unless the
\* second is greater, so a NaN baseline stays NaN
MaxWithEps(first) == IF EpsGt(first) THEN Eps ELSE [ m |-> first, e |-> 0 ]

\* mutant of Growth: the last value over the baseline, the baseline not
\* subtracted
Growth_LastOverFirst(first, last) ==
    LET den == MaxWithEps(first)
        m   == RatDiv(RatMul(Num(100), last), den.m)
    IN  [ m |-> m, e |-> IF IsNaN(m) \/ m = Num(0) THEN 0 ELSE -den.e ]

\* 100 * (last - first) / max(first, 1e-9)
Growth(first, last) ==
    LET den == MaxWithEps(first)
        m   == RatDiv(RatMul(Num(100), RatSub(last, first)), den.m)
    IN  [ m |-> m, e |-> IF IsNaN(m) \/ m = Num(0) THEN 0 ELSE -den.e ]

\* f"{growth:,.1f}": with e = 9 the value is a whole multiple of 0.1 for every
\* m whose denominator divides 10^10, and is written as it is
FmtGrowth(g) ==
    IF IsNaN(g.m) THEN [ kind |-> "nan", val |-> g ]
    ELSE [ kind |-> "num",
           val  |-> [ g EXCEPT !.m = IF g.e = 0 THEN RoundTo(@, 1) ELSE @ ] ]

-----------------------------------------------------------------------------
(***************************************************************************)
(* Section 4: DEX Volume & Active Swappers (lines 399-405).               *)
(***************************************************************************)
MaxDexRows == 3

DexMonths == { Date(2025, 6, 1), Date(2025, 7, 1), Date(2025, 8, 1) }
DexValues == { Num(0), Num(50), Num(100), Num(150) }
DexRows   == [ MONTH : DexMonths, TOTAL_VOLUME_BILLIONS : DexValues ]

Section4Kpis(df) ==
    LET peak_vol == MaxSkipNa(Column(df, "TOTAL_VOLUME_BILLIONS"))
        \* df_dex.iloc[0] and df_dex.iloc[-1]: first and last row of the file
        growth   == Growth(df[1].TOTAL_VOLUME_BILLIONS,
                           df[Len(df)].TOTAL_VOLUME_BILLIONS)
    IN  [ sec         |-> "4",
          first_row   |-> df[1],
          last_row    |-> df[Len(df)],
          peak_vol    |-> peak_vol,
          growth      |-> growth,
          peak_text   |-> FmtFixed(peak_vol, 2),
          growth_text |-> FmtGrowth(growth) ]

\* "if not df_dex.empty:" and the KPI part of its body
Section4 ==
    /\ pc = "sec4"
    /\ kpi' = IF df_dex = << >> THEN [ sec |-> "4 skipped" ]
              ELSE Section4Kpis(df_dex)
    /\ pc' = "done"
    /\ UNCHANGED << runVars, delimVars, tableVars, probVars >>

-----------------------------------------------------------------------------
(***************************************************************************)
(* Section 8: User Adoption During Fee Evolution (lines 556-569).         *)
(***************************************************************************)
MaxFeeRows == 3

FeeMonths == { Date(2025, 6, 1), Date(2025, 7, 1) }
FeeUsers  == { Num(0), Num(50), Num(100), Num(150) }
FeeFees   == { Num(0), Num(50), Num(100) }
FeeRows   == [ MONTH : FeeMonths, USERS_MILLIONS : FeeUsers, AVG_FEE_USD : FeeFees ]

\* mutant of MeanSkipNa: the first cell that is present
MeanSkipNa_First(s) == IF DropNa(s) = << >> THEN NaN ELSE Head(DropNa(s))

\* Series.mean(): NaN cells are skipped; NaN when nothing is left
MeanSkipNa(s) == RatDiv(SumSkipNa(s), Num(Len(DropNa(s))))

\* a set of dates as an ascending sequence
RECURSIVE SortedMonths(_)
SortedMonths(M) ==
    IF M = {} THEN << >>
    ELSE LET m == CHOOSE a \in M : \A b \in M : a <= b
         IN  << m >> \o SortedMonths(M \ { m })

\* lines 558-561: groupby("MONTH").agg(sum, mean).sort_values("MONTH")
FeesByMonth(df) ==
    LET months == SortedMonths(MonthsOf(df))
    IN  [ j \in 1..Len(months) |->
            LET g == RowsWhere(df, "MONTH", months[j])
            IN  [ MONTH          |-> months[j],
                  USERS_MILLIONS |-> SumSkipNa(Column(g, "USERS_MILLIONS")),
                  AVG_FEE_USD    |-> MeanSkipNa(Column(g, "AVG_FEE_USD")) ] ]

Section8Kpis(df) ==
    LET agg == FeesByMonth(df)
        growth_users == Growth(agg[1].USERS_MILLIONS, agg[Len(agg)].USERS_MILLIONS)
        fee_change   == Growth(agg[1].AVG_FEE_USD, agg[Len(agg)].AVG_FEE_USD)
    IN  [ sec          |-> "8",
          agg          |-> agg,
          growth_users |-> growth_users,
          fee_change   |-> fee_change,
          users_text   |-> FmtGrowth(growth_users),
          fee_text     |-> FmtGrowth(fee_change) ]

\* "if not df_fees.empty:" and the KPI part of its body
Section8 ==
    /\ pc = "sec8"
    /\ kpi' = IF df_fees = << >> THEN [ sec |-> "8 skipped" ]
              ELSE Section8Kpis(df_fees)
    /\ pc' = "done"
    /\ UNCHANGED << runVars, delimVars, tableVars, probVars >>

-----------------------------------------------------------------------------
(***************************************************************************)
(* Section 6: Cross-Chain Connectivity - Bridge Flows (lines 462-476).    *)
(***************************************************************************)
BridgeMonths == { Date(2025, 6, 1), Date(2025, 7, 1), NaT }
BridgeNet    == { Num(-1), Num(2) }
BridgeTotal  == { Num(1), Num(3) }
BridgeRows   == [ MONTH : BridgeMonths, NET_FLOW_BILLIONS : BridgeNet,
                  TOTAL_BRIDGE_VOLUME_BILLIONS : BridgeTotal ]

\* the rows of df in the order p
Permuted(df, p) == [ i \in 1..Len(df) |-> df[p[i]] ]

\* ascending by MONTH with the NaT rows last (na_position="last")
MonthsAscending(df) ==
    \A i \in 1..(Len(df) - 1) :
        \/ df[i + 1].MONTH = NaT
        \/ df[i].MONTH # NaT /\ df[i].MONTH <= df[i + 1].MONTH

\* df.sort_values("MONTH") with the default kind="quicksort", which promises
\* no order among rows of the same MONTH: every sorted arrangement
SortValuesMonth(df) ==
    { Permuted(df, p) :
        p \in { q \in [ 1..Len(df) -> 1..Len(df) ] :
                  /\ \A i, j \in 1..Len(df) : i # j => q[i] # q[j]
                  /\ MonthsAscending(Permuted(df, q)) } }

\* lines 471-476, on dfb = df_bridge.sort_values("MONTH")
Section6Kpis(dfb) ==
    LET peak_total == MaxSkipNa(Column(dfb, "TOTAL_BRIDGE_VOLUME_BILLIONS"))
        net_latest == dfb[Len(dfb)].NET_FLOW_BILLIONS
    IN  [ sec        |-> "6",
          latest_row |-> dfb[Len(dfb)],
          peak_total |-> peak_total,
          net_latest |-> net_latest,
          peak_text  |-> FmtFixed(peak_total, 2),
          net_text   |-> FmtFixed(net_latest, 2) ]

\* "if not df_bridge.empty:" and the KPI part of its body
Section6 ==
    /\ pc = "sec6"
    /\ IF df_bridge = << >>
       THEN kpi' = [ sec |-> "6 skipped" ]
       ELSE \E dfb \in SortValuesMonth(df_bridge) : kpi' = Section6Kpis(dfb)
    /\ pc' = "done"
    /\ UNCHANGED << runVars, delimVars, tableVars, probVars >>

-----------------------------------------------------------------------------
(***************************************************************************)
(* Section 7: ETH Price Overlay with Activity Index (lines 524-533).      *)
(* A correlation coefficient r is kept exactly, as its sign and its       *)
(* square: r = sign * sqrt(sq).                                           *)
(***************************************************************************)
MaxEthRows == 3

EthValues == { NaN, Num(1), Num(2) }

\* the rows of an eth_price.csv of k rows: one row per month, any values
EthTables(k) ==
    { [ i \in 1..k |-> [ MONTH             |-> Date(2025, i, 1),
                         AVG_ETH_PRICE_USD |-> t[i][1],
                         ACTIVITY_INDEX    |-> t[i][2] ] ] :
        t \in [ 1..k -> EthValues \X EthValues ] }

NaNCorr == [ nan |-> TRUE, sign |-> 0, sq |-> NaN ]

\* Series.min(): NaN cells are skipped; NaN when nothing is left
RECURSIVE MinSkipNa(_)
MinSkipNa(s) ==
    IF s = << >> THEN NaN
    ELSE LET m == MinSkipNa(Tail(s))
         IN  IF IsNaN(Head(s)) THEN m
             ELSE IF IsNaN(m) \/ RatLt(Head(s), m) THEN Head(s) ELSE m

\* the sum and the mean of a sequence as numpy computes them: a NaN cell
\* makes the result NaN
RECURSIVE SumAll(_)
SumAll(s) == IF s = << >> THEN Num(0) ELSE RatAdd(Head(s), SumAll(Tail(s)))

MeanAll(s) == RatDiv(SumAll(s), Num(Len(s)))

\* sum of (x_i - mean x) * (y_i - mean y)
CoMoment(xs, ys) ==
    SumAll([ i \in 1..Len(xs) |->
               RatMul(RatSub(xs[i], MeanAll(xs)), RatSub(ys[i], MeanAll(ys))) ])

SignOf(x) == IF x[1] > 0 THEN 1 ELSE IF x[1] < 0 THEN -1 ELSE 0

\* mutant of CorrCoef: a zero variance yields 0 instead of NaN
CorrCoef_ZeroVarianceIsZero(xs, ys) ==
    LET cxy == CoMoment(xs, ys)
        cxx == CoMoment(xs, xs)
        cyy == CoMoment(ys, ys)
    IN  IF IsNaN(cxy) \/ IsNaN(cxx) \/ IsNaN(cyy) THEN NaNCorr
        ELSE IF cxx = Num(0) \/ cyy = Num(0)
             THEN [ nan |-> FALSE, sign |-> 0, sq |-> Num(0) ]
        ELSE [ nan  |-> FALSE,
               sign |-> SignOf(cxy),
               sq   |-> RatDiv(RatMul(cxy, cxy), RatMul(cxx, cyy)) ]

\* np.corrcoef(xs, ys)[0, 1]: cov(x,y) / sqrt(var x * var y) over ALL rows; a
\* NaN in either column makes it NaN, and so does a zero variance (0/0)
CorrCoef(xs, ys) ==
    LET cxy == CoMoment(xs, ys)
        cxx == CoMoment(xs, xs)
        cyy == CoMoment(ys, ys)
    IN  IF IsNaN(cxy) \/ IsNaN(cxx) \/ IsNaN(cyy) \/ cxx = Num(0) \/ cyy = Num(0)
        THEN NaNCorr
        ELSE [ nan  |-> FALSE,
               sign |-> SignOf(cxy),
               sq   |-> RatDiv(RatMul(cxy, cxy), RatMul(cxx, cyy)) ]

\* f"{corr:,.2f}": |r| rounded to the k hundredths with
\* (k - 1/2)^2 <= 10^4 * sq < (k + 1/2)^2
FmtCorr(c) ==
    IF c.nan THEN [ kind |-> "nan", val |-> NaN ]
    ELSE LET k == CHOOSE j \in 0..100 :
                     /\ (2 * j - 1) * (2 * j - 1) * c.sq[2] <= 40000 * c.sq[1] \/ j = 0
                     /\ 40000 * c.sq[1] < (2 * j + 1) * (2 * j + 1) * c.sq[2]
         IN  [ kind |-> "num", val |-> Rat(c.sign * k, 100) ]

Section7Kpis(df) ==
    LET price == Column(df, "AVG_ETH_PRICE_USD")
        act   == Column(df, "ACTIVITY_INDEX")
        \* line 529: "... if len(df_eth) > 1 else np.nan"
        corr  == IF Len(df) > 1 THEN CorrCoef(price, act) ELSE NaNCorr
    IN  [ sec       |-> "7",
          price_min |-> MinSkipNa(price),
          price_max |-> MaxSkipNa(price),
          corr      |-> corr,
          corr_text |-> FmtCorr(corr) ]

\* "if not df_eth.empty:" and the KPI part of its body
Section7 ==
    /\ pc = "sec7"
    /\ kpi' = IF df_eth = << >> THEN [ sec |-> "7 skipped" ]
              ELSE Section7Kpis(df_eth)
    /\ pc' = "done"
    /\ UNCHANGED << runVars, delimVars, tableVars, probVars >>

-----------------------------------------------------------------------------
(***************************************************************************)
(* Delimiter detection of load_active_activity (lines 152-160) and of     *)
(* _read_csv_smart (lines 899-903).  A text is a sequence of characters.  *)
(***************************************************************************)
HeadChars == 4096

\* f.read(4096): the first HeadChars characters of the file
ReadHead(t) == IF Len(t) <= HeadChars THEN t ELSE SubSeq(t, 1, HeadChars)

\* str.count(ch) for a one-character ch
RECURSIVE Count(_, _)
Count(t, ch) ==
    IF t = << >> THEN 0
    ELSE (IF Head(t) = ch THEN 1 ELSE 0) + Count(Tail(t), ch)

\* ";" if head.count(";") > head.count(",") else ","
DetectSep(h) == IF Count(h, ";") > Count(h, ",") THEN ";" ELSE ","

\* the first line of the file, without its line end
RECURSIVE FirstLine(_)
FirstLine(t) ==
    IF t = << >> \/ Head(t) = "\n" THEN << >>
    ELSE << Head(t) >> \o FirstLine(Tail(t))

\* the cells of an unquoted line split at sep
RECURSIVE SplitLine(_, _)
SplitLine(line, sep) ==
    IF \A i \in 1..Len(line) : line[i] # sep THEN << line >>
    ELSE LET k == CHOOSE i \in 1..Len(line) :
                     line[i] = sep /\ \A j \in 1..(i - 1) : line[j] # sep
         IN  << SubSeq(line, 1, k - 1) >>
             \o SplitLine(SubSeq(line, k + 1, Len(line)), sep)

\* pd.read_csv(path, sep=...) as far as the header goes: the column names
HeaderColumns(t, sep) == SplitLine(FirstLine(t), sep)

MONTH_ == << "M", "O", "N", "T", "H" >>
SECTOR_ == << "S", "E", "C", "T", "O", "R" >>
AVG_DAILY_ACTIVE_ADDRESSES_ ==
    << "A", "V", "G", "_", "D", "A", "I", "L", "Y", "_", "A", "C", "T", "I",
       "V", "E", "_", "A", "D", "D", "R", "E", "S", "S", "E", "S" >>
TRANSACTIONS_ == << "T", "R", "A", "N", "S", "A", "C", "T", "I", "O", "N", "S" >>

\* "expected" of load_active_activity (line 172)
ExpectedActiveColumns ==
    { MONTH_, SECTOR_, AVG_DAILY_ACTIVE_ADDRESSES_, TRANSACTIONS_ }

\* the part of load_active_activity that depends on the separator: the
\* separator, the columns read with it and the expected columns not found
LoadActiveDetect ==
    /\ pc = "load_active_activity"
    /\ head' = ReadHead(text)
    /\ LET sep  == DetectSep(ReadHead(text))
           cols == HeaderColumns(text, sep)
       IN  seps' = [ loader  |-> "load_active_activity",
                     sep     |-> sep,
                     columns |-> cols,
                     missing |-> ExpectedActiveColumns
                                   \ { cols[i] : i \in 1..Len(cols) } ]
    /\ pc' = "done"
    /\ UNCHANGED << text, loadVars, runVars, tableVars, kpi, probVars >>

\* the same part of _read_csv_smart, which checks no column
ReadCsvSmartDetect ==
    /\ pc = "_read_csv_smart"
    /\ head' = ReadHead(text)
    /\ LET sep == DetectSep(ReadHead(text))
       IN  seps' = [ loader  |-> "_read_csv_smart",
                     sep     |-> sep,
                     columns |-> HeaderColumns(text, sep),
                     missing |-> {} ]
    /\ pc' = "done"
    /\ UNCHANGED << text, loadVars, runVars, tableVars, kpi, probVars >>

(***************************************************************************)
(* Semicolon-delimited files: a header, then up to MaxDelimRows rows      *)
(* whose first cell is a month and whose other cells are numbers written  *)
(* plainly, with a decimal comma, or with thousands separators.           *)
(***************************************************************************)
MaxDelimRows == 2

DelimHeaders ==
    { << MONTH_, TRANSACTIONS_ >>,
      << MONTH_, SECTOR_, TRANSACTIONS_ >>,
      << MONTH_, SECTOR_, AVG_DAILY_ACTIVE_ADDRESSES_, TRANSACTIONS_ >> }

MonthCell == << "2", "0", "2", "5", "-", "0", "6" >>

NumberCells ==
    { << "7" >>,
      << "1", ",", "5" >>,
      << "1", ",", "2", "3", "4", ",", "5", "6", "7" >> }

\* the cells joined by sep, as one line without its line end
RECURSIVE Join(_, _)
Join(cells, sep) ==
    IF Len(cells) = 1 THEN cells[1]
    ELSE cells[1] \o << sep >> \o Join(Tail(cells), sep)

RECURSIVE Lines(_, _)
Lines(rows, sep) ==
    IF rows = << >> THEN << >>
    ELSE Join(Head(rows), sep) \o << "\n" >> \o Lines(Tail(rows), sep)

\* every file with the given header and k data rows, written with ";"
SemicolonFiles(hdr, k) ==
    { Lines(<< hdr >> \o [ i \in 1..k |-> << MonthCell >> \o r[i] ], ";") :
        r \in [ 1..k -> [ 1..(Len(hdr) - 1) -> NumberCells ] ] }

-----------------------------------------------------------------------------
(***************************************************************************)
(* The run of the script, top to bottom (lines 137-1206).  A data file is *)
(*   "ok"          present, with the columns and numeric cells its        *)
(*                 consumers read;                                        *)
(*   "missing"     absent from data/;                                     *)
(*   "unparseable" present with content pd.read_csv rejects, such as a    *)
(*                 zero-byte file (EmptyDataError);                       *)
(*   "nocol"       present, with rows, lacking one expected column        *)
(*                 (LackingColumn).                                       *)
(* A frame is "rows", "empty", or "nocol" (rows, LackingColumn absent);   *)
(* "unset" before its loader call.                                        *)
(***************************************************************************)
MaxBadFiles == 1

FileNames ==
    { "volume_category.csv", "user_cohort.csv", "user_typology.csv",
      "dex_volume.csv", "bridged_volume.csv", "eth_price.csv",
      "lending_deposits.csv", "fees_activity.csv", "active_addresses.csv",
      "etf_flows.csv", "rates_expectations.csv", "fedfunds_history.csv" }

\* the column a "nocol" file lacks
LackingColumn ==
    [ f \in { "volume_category.csv", "active_addresses.csv" } |->
        IF f = "volume_category.csv" THEN "VOLUME_USD_BILLIONS" ELSE "SECTOR" ]

FileConds(f) ==
    { "ok", "missing", "unparseable" }
        \cup (IF f \in DOMAIN LackingColumn THEN { "nocol" } ELSE {})

\* the statements of the script in order: loader calls, sections, footer
Script ==
    << [ op |-> "read_csv", file |-> "volume_category.csv",  target |-> "df_volcat" ],
       [ op |-> "read_csv", file |-> "user_cohort.csv",      target |-> "df_cohort" ],
       [ op |-> "read_csv", file |-> "user_typology.csv",    target |-> "df_typology" ],
       [ op |-> "read_csv", file |-> "dex_volume.csv",       target |-> "df_dex" ],
       [ op |-> "read_csv", file |-> "bridged_volume.csv",   target |-> "df_bridge" ],
       [ op |-> "read_csv", file |-> "eth_price.csv",        target |-> "df_eth" ],
       [ op |-> "read_csv", file |-> "lending_deposits.csv", target |-> "df_lend" ],
       [ op |-> "read_csv", file |-> "fees_activity.csv",    target |-> "df_fees" ],
       [ op |-> "load_active_activity", file |-> "active_addresses.csv",
                                                             target |-> "df_active" ],
       [ op |-> "section", file |-> "1", target |-> "df_volcat" ],
       [ op |-> "section", file |-> "2", target |-> "df_active" ],
       [ op |-> "section", file |-> "3", target |-> "df_typology" ],
       [ op |-> "section", file |-> "4", target |-> "df_dex" ],
       [ op |-> "section", file |-> "5", target |-> "df_lend" ],
       [ op |-> "section", file |-> "6", target |-> "df_bridge" ],
       [ op |-> "section", file |-> "7", target |-> "df_eth" ],
       [ op |-> "section", file |-> "8", target |-> "df_fees" ],
       [ op |-> "s8_read_csv", file |-> "fees_activity.csv",      target |-> "fees_df" ],
       [ op |-> "s8_read_csv", file |-> "etf_flows.csv",          target |-> "etf_df" ],
       [ op |-> "s8_read_csv", file |-> "rates_expectations.csv", target |-> "rates_df" ],
       [ op |-> "s8_read_csv", file |-> "fedfunds_history.csv",   target |-> "fed_df" ],
       [ op |-> "s8_read_csv", file |-> "eth_price.csv",          target |-> "price_df" ],
       [ op |-> "s8 panel", file |-> "8", target |-> "panel" ],
       [ op |-> "_read_csv_smart", file |-> "eth_price.csv",          target |-> "df_base" ],
       [ op |-> "_read_csv_smart", file |-> "etf_flows.csv",          target |-> "df_etf" ],
       [ op |-> "_read_csv_smart", file |-> "rates_expectations.csv", target |-> "df_rates" ],
       [ op |-> "_read_csv_smart", file |-> "fedfunds_history.csv",   target |-> "fed" ],
       [ op |-> "drivers panel", file |-> "8", target |-> "panel" ],
       [ op |-> "footer", file |-> "", target |-> "" ] >>

Targets == { Script[i].target : i \in 1..Len(Script) } \ { "" }

Loaders == { "read_csv", "load_active_activity", "s8_read_csv", "_read_csv_smart" }

\* the frame pd.read_csv gives for a file that is there and parses
FrameOf(cond) == IF cond = "nocol" THEN "nocol" ELSE "rows"

Running(op) ==
    /\ pc \in 1..Len(Script)
    /\ exc.type = "none"
    /\ Script[pc].op = op

Returns(frame) ==
    /\ loaded' = [ loaded EXCEPT ![Script[pc].target] = frame ]
    /\ pc' = pc + 1
    /\ exc' = exc

\* an uncaught exception ends the run at this statement
Raises(type) ==
    /\ exc' = [ type |-> type, at |-> Script[pc].op ]
    /\ UNCHANGED << pc, loaded, msgs >>

\* read_csv (lines 74-82): only the missing file is handled
ReadCsv ==
    /\ Running("read_csv")
    /\ LET cond == files[Script[pc].file]
       IN  CASE cond = "missing" ->
                  /\ msgs' = msgs \cup { << "info", "Missing data file", Script[pc].file >> }
                  /\ Returns("empty")
             [] cond = "unparseable" -> Raises("EmptyDataError")
             [] OTHER -> Returns(FrameOf(cond)) /\ msgs' = msgs
    /\ UNCHANGED << files, delimVars, tableVars, kpi, probVars >>

\* load_active_activity (lines 146-186): open() and pd.read_csv are not
\* guarded; a missing expected column gives a warning and an empty frame
LoadActiveActivity ==
    /\ Running("load_active_activity")
    /\ LET cond == files[Script[pc].file]
       IN  CASE cond = "missing" -> Raises("FileNotFoundError")
             [] cond = "unparseable" -> Raises("EmptyDataError")
             [] cond = "nocol" ->
                  /\ msgs' = msgs \cup { << "warning", "[active_addresses.csv] Missing columns",
                                           LackingColumn[Script[pc].file] >> }
                  /\ Returns("empty")
             [] OTHER -> Returns("rows") /\ msgs' = msgs
    /\ UNCHANGED << files, delimVars, tableVars, kpi, probVars >>

\* sections 1-8 (lines 198-587): "if not df.empty:" and then reads of the
\* columns; section 1 reads VOLUME_USD_BILLIONS without a check (line 200)
Section ==
    /\ Running("section")
    /\ IF Script[pc].file = "1" /\ loaded[Script[pc].target] = "nocol"
       THEN Raises("KeyError")
       ELSE pc' = pc + 1 /\ UNCHANGED << exc, loaded, msgs >>
    /\ UNCHANGED << files, delimVars, tableVars, kpi, probVars >>

\* s8_read_csv (lines 594-602): every exception gives an empty frame
S8ReadCsv ==
    /\ Running("s8_read_csv")
    /\ LET cond == files[Script[pc].file]
       IN  IF cond \in { "missing", "unparseable" }
           THEN Returns("empty") ELSE Returns("rows")
    /\ msgs' = msgs
    /\ UNCHANGED << files, delimVars, tableVars, kpi, probVars >>

\* first Section 8, lines 655-872: the panel is the outer merge of the
\* frames that are not empty; only the fees frame brings ACTIVITY_INDEX or
\* TX_M, which line 851 reads without a check
S8Panel ==
    /\ Running("s8 panel")
    /\ LET frames == { t \in { "fees_df", "etf_df", "rates_df", "price_df" } :
                         loaded[t] = "rows" }
       IN  CASE frames = {} ->
                  /\ msgs' = msgs \cup { << "info", "Section 8: data missing", "" >> }
                  /\ pc' = pc + 1
                  /\ UNCHANGED << exc, loaded >>
             [] frames # {} /\ "fees_df" \notin frames -> Raises("KeyError")
             [] OTHER -> pc' = pc + 1 /\ UNCHANGED << exc, loaded, msgs >>
    /\ UNCHANGED << files, delimVars, tableVars, kpi, probVars >>

\* _read_csv_smart (lines 890-923): only the missing file is handled
ReadCsvSmart ==
    /\ Running("_read_csv_smart")
    /\ LET cond == files[Script[pc].file]
       IN  CASE cond = "missing" -> Returns("empty")
             [] cond = "unparseable" -> Raises("EmptyDataError")
             [] OTHER -> Returns("rows")
    /\ msgs' = msgs
    /\ UNCHANGED << files, delimVars, tableVars, kpi, probVars >>

\* second Section 8, lines 1064-1200: the panel selects four columns of
\* df_base without a check (line 1065)
DriversPanel ==
    /\ Running("drivers panel")
    /\ IF loaded["df_base"] # "rows"
       THEN Raises("KeyError")
       ELSE pc' = pc + 1 /\ UNCHANGED << exc, loaded, msgs >>
    /\ UNCHANGED << files, delimVars, tableVars, kpi, probVars >>

\* lines 1205-1206
Footer ==
    /\ Running("footer")
    /\ msgs' = msgs \cup { << "caption", "footer", "" >> }
    /\ pc' = pc + 1
    /\ UNCHANGED << exc, loaded, files, delimVars, tableVars, kpi, probVars >>

-----------------------------------------------------------------------------
(***************************************************************************)
(* What each loader does to the MONTH column and to the row order.  A     *)
(* MONTH cell of the file is a text: [y, m, d] for "YYYY-MM-DD", d = 0    *)
(* for "YYYY-MM", and NoText for an empty cell.  The cells of one file    *)
(* are all written in the same format.                                    *)
(***************************************************************************)
MaxCsvRows == 3

NoText == [ y |-> 0, m |-> 0, d |-> 0 ]

YmTexts  == { [ y |-> 2025, m |-> 6, d |-> 0 ], [ y |-> 2025, m |-> 7, d |-> 0 ] }
YmdTexts == { [ y |-> 2025, m |-> 6, d |-> 1 ], [ y |-> 2025, m |-> 6, d |-> 17 ],
              [ y |-> 2025, m |-> 7, d |-> 1 ] }

CsvSectors == { "DEX Trading", "Others" }

\* the files of k data rows whose MONTH cells are in texts or empty; the
\* TRANSACTIONS cell of a row is its line number, which identifies the row
CsvFiles(texts, k) ==
    { [ i \in 1..k |-> [ MONTH        |-> c[i][1],
                         SECTOR       |-> c[i][2],
                         TRANSACTIONS |-> Num(i) ] ] :
        c \in [ 1..k -> (texts \cup { NoText }) \X CsvSectors ] }

\* pd.to_datetime(text): "YYYY-MM" is the first day of the month, an empty
\* cell is NaT
ToDatetime(t) ==
    IF t = NoText THEN NaT ELSE Date(t.y, t.m, IF t.d = 0 THEN 1 ELSE t.d)

\* pd.to_datetime(text, format="%Y-%m", errors="coerce"): a text that is not
\* "YYYY-MM" is NaT
ToDatetimeYm(t) ==
    IF t # NoText /\ t.d = 0 THEN Date(t.y, t.m, 1) ELSE NaT

\* .dt.to_period("M").dt.to_timestamp(how="start") and
\* .dt.strftime("%Y-%m-01"): the first day of the month of a Timestamp
MonthStartOf(ts) == IF ts = NaT THEN NaT ELSE (ts \div 100) * 100 + 1

\* df with f applied to every MONTH cell
MapMonth(df, f(_)) == [ i \in 1..Len(df) |-> [ df[i] EXCEPT !.MONTH = f(@) ] ]

\* df.dropna(subset=["MONTH"])
DropNaT(df) == SelectSeq(df, LAMBDA row : row.MONTH # NaT)

\* a sorts at or before b by the columns by
RowLe(a, b, by) ==
    IF by = << "MONTH", "SECTOR" >> THEN KeyLe(a, b) ELSE a.MONTH <= b.MONTH

\* df.sort_values(by), stable: every row goes after the rows already placed
\* that sort at or before it
RECURSIVE PlaceStable(_, _, _)
PlaceStable(s, x, by) ==
    IF s = << >> \/ RowLe(s[Len(s)], x, by) THEN Append(s, x)
    ELSE Append(PlaceStable(SubSeq(s, 1, Len(s) - 1), x, by), s[Len(s)])

RECURSIVE SortStable(_, _)
SortStable(df, by) ==
    IF df = << >> THEN << >>
    ELSE PlaceStable(SortStable(SubSeq(df, 1, Len(df) - 1), by), df[Len(df)], by)

\* read_csv (lines 79-82): MONTH is parsed; nothing is truncated or sorted
ReadCsvFrame(rows) == MapMonth(rows, ToDatetime)

\* load_active_activity (lines 178-186): MONTH parsed as "%Y-%m", rows with
\* no MONTH dropped, rows sorted by (MONTH, SECTOR)
LoadActiveFrame(rows) ==
    SortStable(DropNaT(MapMonth(rows, ToDatetimeYm)), << "MONTH", "SECTOR" >>)

\* s8_month_start (lines 604-617)
s8_month_start(t) == MonthStartOf(ToDatetime(t))

\* _month_start (lines 885-888)
_month_start(t) == MonthStartOf(ToDatetime(t))

\* lines 955-960 (df_base): _month_start, dropna, sort_values("MONTH");
\* lines 966-971 (df_etf): _month_start, dropna.  The tables this can give
SmartMonthFrame(target, df) ==
    IF target = "df_base"
    THEN SortValuesMonth(DropNaT(MapMonth(df, _month_start)))
    ELSE { DropNaT(MapMonth(df, _month_start)) }

LoaderCalls ==
    { [ loader |-> "read_csv",             target |-> "df_volcat" ],
      [ loader |-> "load_active_activity", target |-> "df_active" ],
      [ loader |-> "s8_read_csv",          target |-> "fees" ],
      [ loader |-> "_read_csv_smart",      target |-> "df_base" ],
      [ loader |-> "_read_csv_smart",      target |-> "df_etf" ] }

\* the table the loader function itself returns: s8_read_csv and
\* _read_csv_smart leave MONTH as it is in the file
LoaderFrame(loader, rows) ==
    CASE loader = "read_csv"             -> ReadCsvFrame(rows)
      [] loader = "load_active_activity" -> LoadActiveFrame(rows)
      [] OTHER                           -> rows

At(loader, at) == pc \in LoaderCalls \X { at } /\ pc[1].loader = loader

ReadCsvCall ==
    /\ At("read_csv", "call")
    /\ result' = LoaderFrame("read_csv", csv)
    /\ pc' = << pc[1], "done" >>
    /\ UNCHANGED << csv, result2, text, head, seps, runVars, tableVars, kpi, probVars >>

LoadActiveCall ==
    /\ At("load_active_activity", "call")
    /\ result' = LoaderFrame("load_active_activity", csv)
    /\ pc' = << pc[1], "done" >>
    /\ UNCHANGED << csv, result2, text, head, seps, runVars, tableVars, kpi, probVars >>

S8ReadCsvCall ==
    /\ At("s8_read_csv", "call")
    /\ result' = LoaderFrame("s8_read_csv", csv)
    /\ pc' = << pc[1], "month" >>
    /\ UNCHANGED << csv, result2, text, head, seps, runVars, tableVars, kpi, probVars >>

\* line 660: fees["MONTH"] = s8_month_start(fees["MONTH"])
S8MonthStart ==
    /\ At("s8_read_csv", "month")
    /\ result' = MapMonth(result, s8_month_start)
    /\ pc' = << pc[1], "done" >>
    /\ UNCHANGED << csv, result2, text, head, seps, runVars, tableVars, kpi, probVars >>

ReadCsvSmartCall ==
    /\ At("_read_csv_smart", "call")
    /\ result' = LoaderFrame("_read_csv_smart", csv)
    /\ pc' = << pc[1], "month" >>
    /\ UNCHANGED << csv, result2, text, head, seps, runVars, tableVars, kpi, probVars >>

SmartMonthStart ==
    /\ At("_read_csv_smart", "month")
    /\ result' \in SmartMonthFrame(pc[1].target, result)
    /\ pc' = << pc[1], "done" >>
    /\ UNCHANGED << csv, result2, text, head, seps, runVars, tableVars, kpi, probVars >>

\* where the script is when the loader function has just returned
Returned(loader) ==
    IF loader \in { "s8_read_csv", "_read_csv_smart" } THEN "month" ELSE "done"

\* mutant of SecondCall: the loader keeps the rows of its earlier calls
SecondCall_Accumulates ==
    /\ pc \in LoaderCalls \X { "done", "month" }
    /\ pc[2] = Returned(pc[1].loader)
    /\ result2' = result \o LoaderFrame(pc[1].loader, csv)
    /\ pc' = << pc[1], "again" >>
    /\ UNCHANGED << csv, result, text, head, seps, runVars, tableVars, kpi, probVars >>

\* the same loader called a second time on the same path, right after its
\* first call returned: it reads the file again and nothing else
SecondCall ==
    /\ pc \in LoaderCalls \X { "done", "month" }
    /\ pc[2] = Returned(pc[1].loader)
    /\ result2' = LoaderFrame(pc[1].loader, csv)
    /\ pc' = << pc[1], "again" >>
    /\ UNCHANGED << csv, result, text, head, seps, runVars, tableVars, kpi, probVars >>

-----------------------------------------------------------------------------
(***************************************************************************)
(* Values of the variables a specification does not use.                  *)
(***************************************************************************)
NoExc      == [ type |-> "none", at |-> "none" ]
IdleRun    == files = << >> /\ loaded = << >> /\ exc = NoExc /\ msgs = {}
IdleLoad   == csv = << >> /\ result = << >> /\ result2 = << >>
IdleDelim  == text = << >> /\ head = << >> /\ seps = << >> /\ IdleLoad
IdleTables == /\ df_volcat = << >> /\ df_active = << >> /\ df_typology = << >>
              /\ df_dex = << >> /\ df_bridge = << >> /\ df_eth = << >>
              /\ df_fees = << >>
              /\ df_etf = << >>
              /\ df_rates = << >> /\ df_fed = << >>
              /\ metric = "Avg Daily Active Addresses"
IdleKpi    == kpi = [ sec |-> "none" ]
IdleProb   == prob_col = << >> /\ r_PROB = << >> /\ df_rates_PROB = << >>

-----------------------------------------------------------------------------
(***************************************************************************)
(* SpecProb: the PROB column of rates_expectations.csv goes through the   *)
(* first Section 8 (lines 745-759), then the second (lines 1006-1011).    *)
(***************************************************************************)
InitProb ==
    /\ pc = "s8a_prob"
    /\ prob_col \in SeqsUpTo(ProbCells, MaxProbRows)
    /\ r_PROB = << >> /\ df_rates_PROB = << >>
    /\ IdleRun /\ IdleDelim /\ IdleTables /\ IdleKpi

S8aProb ==
    /\ pc = "s8a_prob"
    /\ r_PROB' = NormalizeProbS8a(prob_col)
    /\ pc' = "s8b_prob"
    /\ UNCHANGED << prob_col, df_rates_PROB, runVars, delimVars, tableVars, kpi >>

S8bProb ==
    /\ pc = "s8b_prob"
    /\ df_rates_PROB' = NormalizeProbS8b(prob_col)
    /\ pc' = "prob_done"
    /\ UNCHANGED << prob_col, r_PROB, runVars, delimVars, tableVars, kpi >>

NextProb == S8aProb \/ S8bProb

SpecProb == InitProb /\ [][NextProb]_vars

-----------------------------------------------------------------------------
(***************************************************************************)
(* Claims about the probability normalisation (SpecProb).                 *)
(***************************************************************************)
\* out is col with every cell divided by 100
ScaledDown(col, out) ==
    /\ Len(out) = Len(col)
    /\ \A i \in 1..Len(col) :
          IF IsNaN(col[i]) THEN IsNaN(out[i])
          ELSE ~IsNaN(out[i]) /\ RatMul(out[i], Num(100)) = col[i]

\* out is what the rule "divide by 100 exactly when divide holds" yields
FollowsRule(col, out, divide) == IF divide THEN ScaledDown(col, out) ELSE out = col

ObservedMax(col) == MaxSkipNa(col)

S8aProbDone == pc \in { "s8b_prob", "prob_done" }
S8bProbDone == pc = "prob_done"

\* C7 (as claimed): in both rates pipelines the PROB column is divided by 100
\* exactly when its observed maximum exceeds 1.5, and left unchanged otherwise.
C7_DividedIffMaxAbove1_5 ==
    LET divide == RatGt(ObservedMax(prob_col), Rat(3, 2))
    IN  /\ S8aProbDone => FollowsRule(prob_col, r_PROB, divide)
        /\ S8bProbDone => FollowsRule(prob_col, df_rates_PROB, divide)

\* the largest value and the runner-up of the non-missing cells
SecondLargest(col) ==
    LET s == DropNa(col)
        k == CHOOSE i \in 1..Len(s) : s[i] = ObservedMax(col)
    IN  MaxSkipNa([ i \in 1..(Len(s) - 1) |-> IF i < k THEN s[i] ELSE s[i + 1] ])

\* the 95th percentile of n <= 20 values lies between the runner-up and the
\* maximum, at the fraction (21 - n) / 20 of the way up
InterpolatedP95(col) ==
    LET n == Len(DropNa(col))
    IN  IF n = 0 THEN NaN
        ELSE IF n = 1 THEN ObservedMax(col)
        ELSE RatAdd(SecondLargest(col),
                    RatMul(Rat(21 - n, 20),
                           RatSub(ObservedMax(col), SecondLargest(col))))

\* C7 (amended): the first pipeline divides PROB by 100 exactly when the
\* observed maximum exceeds 1; the second exactly when the 95th percentile of
\* the non-missing cells (not the maximum) exceeds 1.5; so a column whose
\* maximum is at most 1 (e.g. 0.87) is unchanged in both, and a column holding
\* the single value 87 becomes 0.87 in both.
C7_DividedPerPipelineRule ==
    /\ S8aProbDone =>
          FollowsRule(prob_col, r_PROB, RatGt(ObservedMax(prob_col), Num(1)))
    /\ S8bProbDone =>
          FollowsRule(prob_col, df_rates_PROB,
                      RatGt(InterpolatedP95(prob_col), Rat(3, 2)))
    /\ (S8bProbDone /\ RatLe(ObservedMax(prob_col), Num(1))) =>
          (r_PROB = prob_col /\ df_rates_PROB = prob_col)
    /\ (S8bProbDone /\ prob_col = << Num(87) >>) =>
          (r_PROB = << Rat(87, 100) >> /\ df_rates_PROB = << Rat(87, 100) >>)

\* C7 witness: a column on which the two rules part: its maximum exceeds 1.5,
\* the first pipeline has divided it by 100 and the second has kept it.
C7_Witness ==
    /\ S8bProbDone
    /\ RatGt(ObservedMax(prob_col), Rat(3, 2))
    /\ ObservedMax(r_PROB) = RatDiv(ObservedMax(prob_col), Num(100))
    /\ df_rates_PROB = prob_col

InUnitInterval(col) ==
    \A i \in 1..Len(col) :
        IsNaN(col[i]) \/ (RatLe(Num(0), col[i]) /\ RatLe(col[i], Num(1)))

\* C8 (as claimed): after normalisation every non-missing PROB value lies in
\* [0,1], in both pipelines, for every column of values between 0 and 100.
C8_ProbInUnitInterval ==
    /\ S8aProbDone => InUnitInterval(r_PROB)
    /\ S8bProbDone => InUnitInterval(df_rates_PROB)

-----------------------------------------------------------------------------
(***************************************************************************)
(* SpecSec1: section 1 on every volume_category.csv of up to MaxVolRows   *)
(* rows, in every row order.                                              *)
(***************************************************************************)
InitSec1 ==
    /\ pc = "sec1"
    /\ df_bridge = << >>
    /\ df_volcat \in SeqsUpTo(VolRows, MaxVolRows)
    /\ df_active = << >> /\ df_typology = << >> /\ df_dex = << >>
    /\ df_eth = << >> /\ df_fees = << >>
    /\ df_etf = << >>
    /\ df_rates = << >> /\ df_fed = << >>
    /\ metric = "Avg Daily Active Addresses"
    /\ IdleRun /\ IdleDelim /\ IdleKpi /\ IdleProb

SpecSec1 == InitSec1 /\ [][Section1]_vars

(***************************************************************************)
(* Claims about section 1 (SpecSec1).                                     *)
(***************************************************************************)
\* the end-to-end scenario, its DEX rows labelled dex
VolScenario(dex) ==
    << [ MONTH |-> Date(2025, 6, 1), CATEGORY |-> dex,
         VOLUME_USD_BILLIONS |-> Num(10) ],
       [ MONTH |-> Date(2025, 6, 1), CATEGORY |-> "Lending",
         VOLUME_USD_BILLIONS |-> Num(5) ],
       [ MONTH |-> Date(2025, 7, 1), CATEGORY |-> dex,
         VOLUME_USD_BILLIONS |-> Num(12) ] >>

\* the sum of VOLUME_USD_BILLIONS over the rows of month m whose category is
\* in cats
RECURSIVE VolumeOf(_, _, _)
VolumeOf(df, m, cats) ==
    IF df = << >> THEN Num(0)
    ELSE LET rest == VolumeOf(Tail(df), m, cats)
         IN  IF Head(df).MONTH = m /\ Head(df).CATEGORY \in cats
             THEN RatAdd(Head(df).VOLUME_USD_BILLIONS, rest)
             ELSE rest

LatestVolMonth == CHOOSE m \in MonthsOf(df_volcat) : \A n \in MonthsOf(df_volcat) : n <= m

Sec1Done == pc = "done" /\ kpi.sec = "1"

\* C5 (as claimed): on the rows (2025-06, DEX, 10), (2025-06, Lending, 5),
\* (2025-07, DEX, 12) the total of 2025-06 is 15 and the DEX dominance of the
\* latest month is 100 %; in general the DEX dominance is 100 x (volume of
\* the DEX rows of the latest month) / (total volume of the latest month).
C5_DexDominanceAsClaimed ==
    Sec1Done =>
        /\ df_volcat = VolScenario("DEX") =>
              /\ MonthlySum(df_volcat, "VOLUME_USD_BILLIONS", Date(2025, 6, 1)) = Num(15)
              /\ kpi.latest_month = Date(2025, 7, 1)
              /\ kpi.dex_share = Num(100)
        /\ kpi.dex_share =
              RatDiv(RatMul(Num(100),
                            VolumeOf(df_volcat, LatestVolMonth, { "DEX", "DEX Trading" })),
                     VolumeOf(df_volcat, LatestVolMonth, VolCategories))

\* C5 (amended): the KPI counts as DEX exactly the rows whose CATEGORY is
\* "DEX Trading".  On the rows (2025-06, DEX Trading, 10), (2025-06, Lending,
\* 5), (2025-07, DEX Trading, 12) the total of 2025-06 is 15 (it is the peak)
\* and the DEX dominance of the latest month, 2025-07, is 100.0 %; with the
\* rows labelled "DEX" it is 0.0 %.  In general, when the total volume of the
\* latest month is not 0, the DEX dominance is 100 x (volume of the
\* "DEX Trading" rows of the latest month) / (that total).
C5_DexTradingDominance ==
    Sec1Done =>
        /\ df_volcat = VolScenario("DEX Trading") =>
              /\ MonthlySum(df_volcat, "VOLUME_USD_BILLIONS", Date(2025, 6, 1)) = Num(15)
              /\ kpi.peak_total = Num(15)
              /\ kpi.latest_month = Date(2025, 7, 1)
              /\ kpi.dex_share = Num(100)
              /\ kpi.share_text = [ kind |-> "num", val |-> Num(100) ]
        /\ df_volcat = VolScenario("DEX") =>
              kpi.share_text = [ kind |-> "num", val |-> Num(0) ]
        /\ VolumeOf(df_volcat, LatestVolMonth, VolCategories) # Num(0) =>
              kpi.dex_share =
                  RatDiv(RatMul(Num(100),
                                VolumeOf(df_volcat, LatestVolMonth, { "DEX Trading" })),
                         VolumeOf(df_volcat, LatestVolMonth, VolCategories))

\* C5 witness: section 1 has run on the scenario and shows 100 %
C5_Witness ==
    /\ Sec1Done
    /\ df_volcat = VolScenario("DEX Trading")
    /\ kpi.dex_share = Num(100)

-----------------------------------------------------------------------------
(***************************************************************************)
(* SpecShare: the three share KPIs (sections 1, 2, 3), each on every      *)
(* table of its file; the sections read disjoint frames.                  *)
(***************************************************************************)
InitSec2 ==
    /\ pc = "sec2"
    /\ df_bridge = << >>
    /\ df_active \in { t \in SeqsUpTo(ActRows, MaxActiveRows) : SortedByMonthSector(t) }
    /\ df_etf = << >>
    /\ df_rates = << >> /\ df_fed = << >>
    /\ metric \in Metrics
    /\ df_volcat = << >> /\ df_typology = << >> /\ df_dex = << >>
    /\ df_eth = << >> /\ df_fees = << >>
    /\ IdleRun /\ IdleDelim /\ IdleKpi /\ IdleProb

InitSec3 ==
    /\ pc = "sec3"
    /\ df_bridge = << >>
    /\ df_typology \in SeqsUpTo(TypRows, MaxTypRows)
    /\ df_volcat = << >> /\ df_active = << >> /\ df_dex = << >>
    /\ df_eth = << >> /\ df_fees = << >>
    /\ df_etf = << >>
    /\ df_rates = << >> /\ df_fed = << >>
    /\ metric = "Avg Daily Active Addresses"
    /\ IdleRun /\ IdleDelim /\ IdleKpi /\ IdleProb

InitShare == InitSec1 \/ InitSec2 \/ InitSec3

NextShare == Section1 \/ Section2 \/ Section3

SpecShare == InitShare /\ [][NextShare]_vars

(***************************************************************************)
(* Claims about the share KPIs (SpecShare).                               *)
(***************************************************************************)
\* the text of a KPI is an em-dash
ShownAsDash(txt) == txt.kind = "dash"

\* the total of the denominator series of the share KPI that has just run
ShareDenominator ==
    CASE kpi.sec = "1" ->
            MonthlySum(df_volcat, "VOLUME_USD_BILLIONS", MaxMonth(df_volcat))
      [] kpi.sec = "2" ->
            MonthlySum(ReplaceNft(df_active), YCol(metric), MaxMonth(df_active))
      [] kpi.sec = "3" ->
            MonthlySum(df_typology, "UNIQUE_USERS", MaxMonth(df_typology))

ShareValue == IF kpi.sec = "3" THEN kpi.top_share ELSE kpi.dex_share

\* C6 (as claimed): whenever the total of the denominator series is 0, the
\* share KPI of sections 1, 2 and 3 is NaN and is displayed as an em-dash,
\* never as a number.
C6_ZeroTotalShownAsDash ==
    (pc = "done" /\ kpi.sec \in { "1", "2", "3" } /\ ShareDenominator = Num(0)) =>
        /\ IsNaN(ShareValue)
        /\ ShownAsDash(kpi.share_text)

-----------------------------------------------------------------------------
(***************************************************************************)
(* SpecGrowth: the growth KPIs of sections 4 and 8, each on every table   *)
(* of its file, in every row order.                                       *)
(***************************************************************************)
InitSec4 ==
    /\ pc = "sec4"
    /\ df_bridge = << >>
    /\ df_dex \in SeqsUpTo(DexRows, MaxDexRows)
    /\ df_volcat = << >> /\ df_active = << >> /\ df_typology = << >>
    /\ df_eth = << >> /\ df_fees = << >>
    /\ df_etf = << >>
    /\ df_rates = << >> /\ df_fed = << >>
    /\ metric = "Avg Daily Active Addresses"
    /\ IdleRun /\ IdleDelim /\ IdleKpi /\ IdleProb

InitSec8 ==
    /\ pc = "sec8"
    /\ df_bridge = << >>
    /\ df_fees \in SeqsUpTo(FeeRows, MaxFeeRows)
    /\ df_volcat = << >> /\ df_active = << >> /\ df_typology = << >>
    /\ df_dex = << >> /\ df_eth = << >>
    /\ df_etf = << >>
    /\ df_rates = << >> /\ df_fed = << >>
    /\ metric = "Avg Daily Active Addresses"
    /\ IdleRun /\ IdleDelim /\ IdleKpi /\ IdleProb

InitGrowth == InitSec4 \/ InitSec8

NextGrowth == Section4 \/ Section8

SpecGrowth == InitGrowth /\ [][NextGrowth]_vars

(***************************************************************************)
(* Claims about the growth KPIs (SpecGrowth).                             *)
(***************************************************************************)
\* the series a growth KPI of the block that has just run is computed on,
\* and the KPI
DexSeries  == Column(df_dex, "TOTAL_VOLUME_BILLIONS")
UserSeries == Column(kpi.agg, "USERS_MILLIONS")
FeeSeries  == Column(kpi.agg, "AVG_FEE_USD")

Sec4Done == pc = "done" /\ kpi.sec = "4"
Sec8Done == pc = "done" /\ kpi.sec = "8"

\* every growth KPI computed on the two-point series ser equals g
GrowthOn(ser, g) ==
    /\ (Sec4Done /\ DexSeries = ser)  => kpi.growth = g
    /\ (Sec8Done /\ UserSeries = ser) => kpi.growth_users = g
    /\ (Sec8Done /\ FeeSeries = ser)  => kpi.fee_change = g

\* C4 (as claimed): the growth KPI on [100, 150] is 50.0 and on [0, 50] it is
\* 5000.0 (a floor of 1 replaces the zero baseline).
C4_GrowthFloorOne ==
    /\ GrowthOn(<< Num(100), Num(150) >>, [ m |-> Num(50), e |-> 0 ])
    /\ GrowthOn(<< Num(0), Num(50) >>, [ m |-> Num(5000), e |-> 0 ])

\* C4 (amended): the growth KPI on [100, 150] is 50.0; on [0, 50] the floor
\* that replaces the zero baseline is 1e-9, so the KPI is 100 * 50 / 1e-9 =
\* 5000 * 10^9 (shown as 5,000,000,000,000.0), not 5000.0.
C4_GrowthFloorEps ==
    /\ GrowthOn(<< Num(100), Num(150) >>, [ m |-> Num(50), e |-> 0 ])
    /\ GrowthOn(<< Num(0), Num(50) >>, [ m |-> Num(5000), e |-> 9 ])
    /\ (Sec4Done /\ DexSeries = << Num(0), Num(50) >>) =>
          kpi.growth_text = [ kind |-> "num", val |-> [ m |-> Num(5000), e |-> 9 ] ]

\* C4 witness: section 4 has computed the growth of [0, 50] with the floor
C4_Witness ==
    /\ Sec4Done
    /\ DexSeries = << Num(0), Num(50) >>
    /\ kpi.growth.e = 9

-----------------------------------------------------------------------------
(***************************************************************************)
(* SpecSec7: section 7 on every eth_price.csv of up to MaxEthRows rows.   *)
(***************************************************************************)
InitSec7 ==
    /\ pc = "sec7"
    /\ df_bridge = << >>
    /\ df_eth \in UNION { EthTables(k) : k \in 0..MaxEthRows }
    /\ df_volcat = << >> /\ df_active = << >> /\ df_typology = << >>
    /\ df_dex = << >> /\ df_fees = << >>
    /\ df_etf = << >>
    /\ df_rates = << >> /\ df_fed = << >>
    /\ metric = "Avg Daily Active Addresses"
    /\ IdleRun /\ IdleDelim /\ IdleKpi /\ IdleProb

SpecSec7 == InitSec7 /\ [][Section7]_vars

(***************************************************************************)
(* Claims about the correlation KPI (SpecSec7).                           *)
(***************************************************************************)
Sec7Done == pc = "done" /\ kpi.sec = "7"

EthPrice    == Column(df_eth, "AVG_ETH_PRICE_USD")
EthActivity == Column(df_eth, "ACTIVITY_INDEX")

\* the rows in which both values are present
CompletePairs ==
    SelectSeq(df_eth, LAMBDA row : ~IsNaN(row.AVG_ETH_PRICE_USD)
                                   /\ ~IsNaN(row.ACTIVITY_INDEX))

PlusOne == [ nan |-> FALSE, sign |-> 1, sq |-> Num(1) ]

\* C9 (as claimed): the correlation is computed from exactly the rows in
\* which both values are present when there are 2 or more of them (a missing
\* value in another row does not make it NaN), and is NaN with fewer than 2.
C9_CorrelationOverCompletePairs ==
    Sec7Done =>
        kpi.corr = IF Len(CompletePairs) >= 2
                   THEN CorrCoef(Column(CompletePairs, "AVG_ETH_PRICE_USD"),
                                 Column(CompletePairs, "ACTIVITY_INDEX"))
                   ELSE NaNCorr

AllEqual(s) == \A i, j \in 1..Len(s) : s[i] = s[j]

\* C10 (as claimed): the correlation of a series against itself is 1.0 for
\* every series with at least 2 finite points, all-equal series included.
C10_SelfCorrelationIsOne ==
    (Sec7Done /\ EthPrice = EthActivity /\ Len(DropNa(EthPrice)) >= 2) =>
        kpi.corr = PlusOne

\* C10 (amended): the correlation of a series against itself is 1.0 exactly
\* when the series has at least 2 rows, no missing value and two different
\* values; it is NaN when the values are all equal (zero variance) and when
\* any row is missing (no row is dropped, see C9).
C10_SelfCorrelation ==
    (Sec7Done /\ EthPrice = EthActivity) =>
        IF Len(EthPrice) >= 2 /\ DropNa(EthPrice) = EthPrice /\ ~AllEqual(EthPrice)
        THEN kpi.corr = PlusOne /\ kpi.corr_text = [ kind |-> "num", val |-> Num(1) ]
        ELSE kpi.corr = NaNCorr /\ kpi.corr_text.kind = "nan"

\* C10 witness: section 7 has correlated a series of 2 or more different
\* values with itself
C10_Witness ==
    /\ Sec7Done
    /\ EthPrice = EthActivity
    /\ Len(EthPrice) >= 2
    /\ kpi.corr = PlusOne

-----------------------------------------------------------------------------
(***************************************************************************)
(* SpecDelim: each of the two count-based loaders on every               *)
(* semicolon-delimited file of the shapes above.                          *)
(***************************************************************************)
InitDelim ==
    /\ pc \in { "load_active_activity", "_read_csv_smart" }
    /\ text \in UNION { SemicolonFiles(hdr, k) :
                          hdr \in DelimHeaders, k \in 0..MaxDelimRows }
    /\ head = << >>
    /\ seps = << >>
    /\ IdleLoad /\ IdleRun /\ IdleTables /\ IdleKpi /\ IdleProb

NextDelim == LoadActiveDetect \/ ReadCsvSmartDetect

SpecDelim == InitDelim /\ [][NextDelim]_vars

\* C3 (as claimed): on every semicolon-delimited file with 2 or more
\* columns, cells holding commas included, the loader selects ";" and so
\* reads the columns the file has.
C3_SemicolonSelected ==
    pc = "done" =>
        /\ seps.sep = ";"
        /\ Len(seps.columns) >= 2

-----------------------------------------------------------------------------
(***************************************************************************)
(* SpecRun: one run of the script for every assignment of conditions to   *)
(* the data files with at most MaxBadFiles files that are not "ok".       *)
(***************************************************************************)
InitRun ==
    /\ pc = 1
    /\ \E B \in { S \in SUBSET FileNames : Cardinality(S) <= MaxBadFiles } :
         \E c \in [ B -> { "missing", "unparseable", "nocol" } ] :
            /\ \A f \in B : c[f] \in FileConds(f)
            /\ files = [ f \in FileNames |-> IF f \in B THEN c[f] ELSE "ok" ]
    /\ loaded = [ t \in Targets |-> "unset" ]
    /\ exc = NoExc
    /\ msgs = {}
    /\ IdleDelim /\ IdleTables /\ IdleKpi /\ IdleProb

NextRun ==
    \/ ReadCsv
    \/ LoadActiveActivity
    \/ Section
    \/ S8ReadCsv
    \/ S8Panel
    \/ ReadCsvSmart
    \/ DriversPanel
    \/ Footer

SpecRun == InitRun /\ [][NextRun]_vars

\* C1 (as claimed): whatever the condition of each data file, no statement
\* of the run raises (the run goes on through sections 1-8 to the footer).
C1_RunNeverRaises == exc.type = "none"

\* the loader calls made so far, the one that raised included
CallsMade ==
    { i \in 1..Len(Script) :
        /\ Script[i].op \in Loaders
        /\ i < pc \/ (i = pc /\ exc.type # "none") }

\* C2 (as claimed): every call of read_csv, load_active_activity,
\* s8_read_csv or _read_csv_smart on a file that is missing or cannot be
\* parsed returns an empty table and does not raise.
C2_LoadersReturnEmpty ==
    \A i \in CallsMade :
        files[Script[i].file] \in { "missing", "unparseable" } =>
            /\ loaded[Script[i].target] = "empty"
            /\ ~(exc.type # "none" /\ pc = i)

\* C18 (as claimed): once the loader of a data file that lacks an expected
\* column has run, a warning naming the missing column has been emitted, and
\* no statement of the run raises KeyError on the missing column.
C18_MissingColumnWarns ==
    \A i \in CallsMade :
        files[Script[i].file] = "nocol" =>
            /\ \E w \in msgs : w[1] = "warning" /\ w[3] = LackingColumn[Script[i].file]
            /\ exc.type # "KeyError"

-----------------------------------------------------------------------------
(***************************************************************************)
(* SpecLoad: every loader on every file of up to MaxCsvRows rows whose    *)
(* MONTH cells are all "YYYY-MM" or all "YYYY-MM-DD" texts.               *)
(***************************************************************************)
InitLoad ==
    /\ pc \in LoaderCalls \X { "call" }
    /\ csv \in UNION { CsvFiles(texts, k) :
                         texts \in { YmTexts, YmdTexts }, k \in 0..MaxCsvRows }
    /\ result = << >>
    /\ result2 = << >>
    /\ text = << >> /\ head = << >> /\ seps = << >>
    /\ IdleRun /\ IdleTables /\ IdleKpi /\ IdleProb

NextLoad ==
    \/ ReadCsvCall
    \/ LoadActiveCall
    \/ S8ReadCsvCall
    \/ S8MonthStart
    \/ ReadCsvSmartCall
    \/ SmartMonthStart
    \/ SecondCall

SpecLoad == InitLoad /\ [][NextLoad]_vars

\* the loader, and the month handling its caller applies, are done
Loaded == pc \in LoaderCalls \X { "done" }

IsMonthStart(ts) == ts = NaT \/ ts % 100 = 1

\* C11 (as claimed): the MONTH column of every table a loader returns holds
\* only first days of months (2025-06-17 is stored as 2025-06-01).
C11_MonthTruncated ==
    Loaded => \A i \in 1..Len(result) : IsMonthStart(result[i].MONTH)

\* the rows with a MONTH are in ascending order of MONTH
SortedByMonth(df) ==
    \A i, j \in 1..Len(df) :
        (i < j /\ df[i].MONTH # NaT /\ df[j].MONTH # NaT) => df[i].MONTH <= df[j].MONTH

\* C12 (as claimed): every loader returns its rows sorted ascending by
\* MONTH, whatever the row order in the file.
C12_SortedByMonth == Loaded => SortedByMonth(result)

-----------------------------------------------------------------------------
(***************************************************************************)
(* SpecLatest: the sections with a "latest" or a "peak" KPI (1, 2, 3, 4,  *)
(* 6), each on every table of up to MaxLatestRows rows, in any row order, *)
(* some rows with a missing MONTH (section 2 reads what                   *)
(* load_active_activity returned: sorted, every row with a MONTH).        *)
(***************************************************************************)
MaxLatestRows == 2

LatestMonths == { Date(2025, 6, 1), Date(2025, 7, 1), NaT }

InitLatest ==
    /\ \/ /\ pc = "sec1"
          /\ df_volcat \in SeqsUpTo([ MONTH : LatestMonths,
                                      CATEGORY : { "DEX Trading", "Lending" },
                                      VOLUME_USD_BILLIONS : { Num(5), Num(10) } ],
                                    MaxLatestRows)
          /\ df_typology = << >> /\ df_dex = << >> /\ df_bridge = << >>
       \/ /\ pc = "sec3"
          /\ df_typology \in SeqsUpTo([ MONTH : LatestMonths,
                                        USER_TYPE : { "Casual" },
                                        ACTIVITY_LEVEL : { "Single-sector", "Multi-sector" },
                                        UNIQUE_USERS : { Num(1), Num(3) } ],
                                      MaxLatestRows)
          /\ df_volcat = << >> /\ df_dex = << >> /\ df_bridge = << >>
       \/ /\ pc = "sec4"
          /\ df_dex \in SeqsUpTo([ MONTH : LatestMonths,
                                   TOTAL_VOLUME_BILLIONS : { Num(50), Num(100) } ],
                                 MaxLatestRows)
          /\ df_volcat = << >> /\ df_typology = << >> /\ df_bridge = << >>
       \/ /\ pc = "sec6"
          /\ df_bridge \in SeqsUpTo(BridgeRows, MaxLatestRows)
          /\ df_volcat = << >> /\ df_typology = << >> /\ df_dex = << >>
    /\ df_active = << >> /\ df_eth = << >> /\ df_fees = << >>
    /\ df_etf = << >>
    /\ df_rates = << >> /\ df_fed = << >>
    /\ metric = "Avg Daily Active Addresses"
    /\ IdleRun /\ IdleDelim /\ IdleKpi /\ IdleProb

InitLatest2 ==
    /\ pc = "sec2"
    /\ df_active \in { t \in SeqsUpTo(ActRows, MaxLatestRows) : SortedByMonthSector(t) }
    /\ df_etf = << >>
    /\ df_rates = << >> /\ df_fed = << >>
    /\ metric \in Metrics
    /\ df_volcat = << >> /\ df_typology = << >> /\ df_dex = << >>
    /\ df_bridge = << >> /\ df_eth = << >> /\ df_fees = << >>
    /\ IdleRun /\ IdleDelim /\ IdleKpi /\ IdleProb

NextLatest == Section1 \/ Section2 \/ Section3 \/ Section4 \/ Section6

InitLatestAny == InitLatest \/ InitLatest2

SpecLatest == InitLatestAny /\ [][NextLatest]_vars

\* the table of the section that has just run
SectionTable ==
    CASE kpi.sec = "1" -> df_volcat
      [] kpi.sec = "2" -> df_active
      [] kpi.sec = "3" -> df_typology
      [] kpi.sec = "4" -> df_dex
      [] kpi.sec = "6" -> df_bridge
      [] OTHER -> << >>

\* the MONTH the section took as the latest one
LatestTaken ==
    CASE kpi.sec = "1" -> kpi.latest_month
      [] kpi.sec = "2" -> kpi.latest
      [] kpi.sec = "3" -> kpi.latest
      [] kpi.sec = "4" -> kpi.last_row.MONTH
      [] kpi.sec = "6" -> kpi.latest_row.MONTH

\* C13 (as claimed): in every section the 'latest' KPI is computed from the
\* rows whose MONTH is the maximum of the non-missing months of the table,
\* whatever the row order of the file and whatever rows have no MONTH.
C13_LatestIsMaxMonth ==
    (pc = "done" /\ kpi.sec \in { "1", "2", "3", "4", "6" }) =>
        LatestTaken = MaxMonth(SectionTable)

\* the 'Peak' headline of the section that has just run, and the series it
\* is the peak of
PeakShown ==
    CASE kpi.sec = "1" -> kpi.peak_total
      [] kpi.sec = "2" -> kpi.peak_val
      [] kpi.sec = "4" -> kpi.peak_vol
      [] kpi.sec = "6" -> kpi.peak_total

PeakColumn ==
    CASE kpi.sec = "1" -> "VOLUME_USD_BILLIONS"
      [] kpi.sec = "2" -> YCol(metric)
      [] kpi.sec = "4" -> "TOTAL_VOLUME_BILLIONS"
      [] kpi.sec = "6" -> "TOTAL_BRIDGE_VOLUME_BILLIONS"

\* C14 (as claimed): every 'Peak' headline (sections 1, 2, 4, 6) is the
\* maximum over the months of the per-month sum of its series, also when a
\* month has several rows (tables in which every row has a MONTH).
C14_PeakIsMaxMonthlySum ==
    (/\ pc = "done" /\ kpi.sec \in { "1", "2", "4", "6" }
     /\ \A i \in 1..Len(SectionTable) : SectionTable[i].MONTH # NaT) =>
        PeakShown = PeakMonthlySum(SectionTable, PeakColumn)


-----------------------------------------------------------------------------
(***************************************************************************)
(* SpecBaseline: the growth KPIs of sections 4 and 8 on tables whose       *)
(* values lie around the 1e-9 floor: below zero, zero, between zero and    *)
(* the floor, the floor itself, above it, and missing.                     *)
(***************************************************************************)
MaxBaseRows == 2

\* k * 0.5e-9
Nano(k) == Rat(k, 2 * Pow10(-Eps.e))

BaselineValues == { NaN } \cup { Nano(k) : k \in -1..3 }

BaselineDexRows == [ MONTH : DexMonths, TOTAL_VOLUME_BILLIONS : BaselineValues ]
BaselineFeeRows == [ MONTH : FeeMonths, USERS_MILLIONS : BaselineValues,
                     AVG_FEE_USD : BaselineValues ]

InitBaseline4 ==
    /\ pc = "sec4"
    /\ df_bridge = << >>
    /\ df_dex \in SeqsUpTo(BaselineDexRows, MaxBaseRows)
    /\ df_volcat = << >> /\ df_active = << >> /\ df_typology = << >>
    /\ df_eth = << >> /\ df_fees = << >>
    /\ df_etf = << >>
    /\ df_rates = << >> /\ df_fed = << >>
    /\ metric = "Avg Daily Active Addresses"
    /\ IdleRun /\ IdleDelim /\ IdleKpi /\ IdleProb

\* fees_activity.csv with one row per month
InitBaseline8 ==
    /\ pc = "sec8"
    /\ df_bridge = << >>
    /\ df_fees \in { t \in SeqsUpTo(BaselineFeeRows, MaxBaseRows) :
                       \A i, j \in 1..Len(t) : i # j => t[i].MONTH # t[j].MONTH }
    /\ df_volcat = << >> /\ df_active = << >> /\ df_typology = << >>
    /\ df_dex = << >> /\ df_eth = << >>
    /\ df_etf = << >>
    /\ df_rates = << >> /\ df_fed = << >>
    /\ metric = "Avg Daily Active Addresses"
    /\ IdleRun /\ IdleDelim /\ IdleKpi /\ IdleProb

InitBaseline == InitBaseline4 \/ InitBaseline8

NextBaseline == Section4 \/ Section8

SpecBaseline == InitBaseline /\ [][NextBaseline]_vars

(***************************************************************************)
(* Claims about the growth formula (SpecBaseline).                         *)
(***************************************************************************)
\* the growth KPIs of the block that has just run, each with the baseline
\* (value of the first row) and the value of the last row it was computed on
GrowthCases ==
    IF Sec4Done
    THEN { [ first  |-> kpi.first_row.TOTAL_VOLUME_BILLIONS,
             last   |-> kpi.last_row.TOTAL_VOLUME_BILLIONS,
             growth |-> kpi.growth ] }
    ELSE IF Sec8Done
    THEN { [ first  |-> kpi.agg[1].USERS_MILLIONS,
             last   |-> kpi.agg[Len(kpi.agg)].USERS_MILLIONS,
             growth |-> kpi.growth_users ],
           [ first  |-> kpi.agg[1].AVG_FEE_USD,
             last   |-> kpi.agg[Len(kpi.agg)].AVG_FEE_USD,
             growth |-> kpi.fee_change ] }
    ELSE { }

\* the number a growth m * 10^e stands for
ValueOf(g) == IF g.e = 0 THEN g.m ELSE RatMul(g.m, Num(Pow10(g.e)))

\* (last / first - 1) * 100
RatioGrowth(c) == RatMul(Num(100), RatSub(RatDiv(c.last, c.first), Num(1)))

\* the growth of c is 100 * (last - first) over the floor 1e-9
OverFloor(c) ==
    RatMul(ValueOf(c.growth), Rat(1, Pow10(-Eps.e)))
        = RatMul(Num(100), RatSub(c.last, c.first))

\* C15 (as claimed): with a positive baseline the growth KPI is
\* (last / first - 1) * 100 on the values of the first and last rows; with a
\* baseline <= 0 the 1e-9 floor is the divisor and the KPI is a finite number.
C15_GrowthFormula ==
    \A c \in GrowthCases :
        /\ RatGt(c.first, Num(0)) => ValueOf(c.growth) = RatioGrowth(c)
        /\ RatLe(c.first, Num(0)) => (~IsNaN(c.growth.m) /\ OverFloor(c))

\* C15 (amended): with a baseline of at least 1e-9 the growth KPI is
\* (last / first - 1) * 100; with a baseline below 1e-9, positive or not, and
\* a last value that is present, the 1e-9 floor is the divisor and the KPI is
\* a finite number; with a missing baseline or last value the KPI is NaN.
C15_GrowthFormulaFromFloor ==
    \A c \in GrowthCases :
        /\ (~IsNaN(c.first) /\ ~EpsGt(c.first)) =>
               ValueOf(c.growth) = RatioGrowth(c)
        /\ (EpsGt(c.first) /\ ~IsNaN(c.last)) =>
               (~IsNaN(c.growth.m) /\ OverFloor(c))
        /\ (IsNaN(c.first) \/ IsNaN(c.last)) => IsNaN(c.growth.m)

\* a growth KPI was computed on a baseline <= 0 and one on a baseline of at
\* least 1e-9 whose last value differs from it
C15_Witness ==
    /\ Sec8Done
    /\ \E c \in GrowthCases :
           RatLe(c.first, Num(0)) /\ ~IsNaN(c.last) /\ c.growth.e = -Eps.e
    /\ \E c \in GrowthCases :
           ~IsNaN(c.first) /\ ~EpsGt(c.first) /\ ~IsNaN(c.last) /\ c.last # c.first


-----------------------------------------------------------------------------
(***************************************************************************)
(* SpecView: section 3 on every table of user_typology.csv, rows without   *)
(* MONTH, missing and negative counts included, in both views.             *)
(***************************************************************************)
MaxViewRows == 2

ViewUsers == { NaN, Num(-1), Num(0), Num(1), Num(3) }

ViewRows == [ MONTH : TypMonths \cup { NaT }, USER_TYPE : UserTypes,
              ACTIVITY_LEVEL : { "Casual" }, UNIQUE_USERS : ViewUsers ]

InitView ==
    /\ pc = "sec3"
    /\ df_bridge = << >>
    /\ df_typology \in SeqsUpTo(ViewRows, MaxViewRows)
    /\ df_volcat = << >> /\ df_active = << >> /\ df_dex = << >>
    /\ df_eth = << >> /\ df_fees = << >>
    /\ df_etf = << >>
    /\ df_rates = << >> /\ df_fed = << >>
    /\ metric = "Avg Daily Active Addresses"
    /\ IdleRun /\ IdleDelim /\ IdleKpi /\ IdleProb

NextView == Section3

SpecView == InitView /\ [][NextView]_vars

(***************************************************************************)
(* Claims about the 100% share view (SpecView).                            *)
(***************************************************************************)
ShareViewDone == pc = "done" /\ kpi.sec = "3" /\ kpi.view = "100% share"

\* the y values plotted at month m, one per point, by the index of the point's
\* row; a NaN y is a gap in its trace and not plotted
PlottedAt(m) ==
    LET pts == { pt \in UNION { kpi.fig3[lab] : lab \in DOMAIN kpi.fig3 } :
                   pt.x = m /\ ~IsNaN(pt.y) }
    IN  [ i \in { pt.index : pt \in pts } |-> (CHOOSE pt \in pts : pt.index = i).y ]

RECURSIVE SumOver(_, _)
SumOver(f, D) ==
    IF D = { } THEN Num(0)
    ELSE LET i == CHOOSE j \in D : TRUE
         IN  RatAdd(f[i], SumOver(f, D \ { i }))

SharesSumTo100(m) ==
    LET y == PlottedAt(m)
    IN  /\ SumOver(y, DOMAIN y) = Num(100)
        /\ \A i \in DOMAIN y : RatLe(Num(0), y[i]) /\ RatLe(y[i], Num(100))

PositiveTotal(m) == RatGt(MonthlySum(df_typology, "UNIQUE_USERS", m), Num(0))

NoNegativeCount(m) ==
    \A i \in 1..Len(df_typology) :
        df_typology[i].MONTH = m => ~RatLt(df_typology[i].UNIQUE_USERS, Num(0))

\* C16 (as claimed): in the 100% share view, for every month whose total
\* UNIQUE_USERS is positive, the plotted shares of the month sum to 100 and
\* each lies in [0, 100].
C16_SharesSumTo100 ==
    ShareViewDone =>
        \A m \in MonthsOf(df_typology) : PositiveTotal(m) => SharesSumTo100(m)

\* C16 (amended): in the 100% share view, for every month whose total
\* UNIQUE_USERS is positive and that has no negative UNIQUE_USERS value, the
\* plotted shares of the month sum to 100 and each lies in [0, 100].
C16_NonNegativeSharesSumTo100 ==
    ShareViewDone =>
        \A m \in MonthsOf(df_typology) :
            (PositiveTotal(m) /\ NoNegativeCount(m)) => SharesSumTo100(m)

\* the 100% view has plotted a month with two segments of positive counts
C16_Witness ==
    /\ ShareViewDone
    /\ \E m \in MonthsOf(df_typology) :
           /\ PositiveTotal(m) /\ NoNegativeCount(m)
           /\ \E i, j \in DOMAIN PlottedAt(m) :
                  /\ Label(df_typology[i]) # Label(df_typology[j])
                  /\ RatGt(PlottedAt(m)[i], Num(0))
                  /\ RatGt(PlottedAt(m)[j], Num(0))


-----------------------------------------------------------------------------
(***************************************************************************)
(* Numeric coercion: s8_num (lines 619-630) and the expected_cols loop of  *)
(* _read_csv_smart (lines 909-923) on a column of text cells.  A cell is   *)
(* the sequence of its characters.                                         *)
(***************************************************************************)
MaxNumRows == 2

DigitVal == [ c \in { "0", "1", "2", "3", "4", "5", "6", "7", "8", "9" } |->
                CASE c = "0" -> 0 [] c = "1" -> 1 [] c = "2" -> 2 [] c = "3" -> 3
                  [] c = "4" -> 4 [] c = "5" -> 5 [] c = "6" -> 6 [] c = "7" -> 7
                  [] c = "8" -> 8 [] c = "9" -> 9 ]

\* str.replace(c, "", regex=False) / re.sub("[...]", "") of a set of characters
Remove(s, C) == SelectSeq(s, LAMBDA c : c \notin C)

\* str.replace(a, b, regex=False) of one character by another
Replace(s, a, b) == [ i \in 1..Len(s) |-> IF s[i] = a THEN b ELSE s[i] ]

\* the integer a sequence of digits writes
RECURSIVE DigitsValue(_)
DigitsValue(s) ==
    IF s = << >> THEN 0
    ELSE 10 * DigitsValue(SubSeq(s, 1, Len(s) - 1)) + DigitVal[s[Len(s)]]

\* pd.to_numeric(errors="coerce") of one text over the characters of the
\* cells below: an optional "-", then digits with at most one ".", at least
\* one digit; every other text is NaN
ToNumeric(s) ==
    LET neg  == s # << >> /\ Head(s) = "-"
        u    == IF neg THEN Tail(s) ELSE s
        dots == { i \in 1..Len(u) : u[i] = "." }
        digs == Remove(u, { "." })
        frac == IF dots = { } THEN 0 ELSE Len(u) - (CHOOSE i \in dots : TRUE)
    IN  IF /\ digs # << >>
           /\ \A i \in 1..Len(digs) : digs[i] \in DOMAIN DigitVal
           /\ Cardinality(dots) <= 1
        THEN Rat((IF neg THEN -1 ELSE 1) * DigitsValue(digs), Pow10(frac))
        ELSE NaN

\* line 621: pandas read the column as numbers when every cell is one
IsNumericDtype(x) == \A i \in 1..Len(x) : ~IsNaN(ToNumeric(x[i]))

\* line 626: .str.replace(r"^\((.*)\)$", r"-\1", regex=True)
ParensToMinus(s) ==
    IF Len(s) >= 2 /\ s[1] = "(" /\ s[Len(s)] = ")"
    THEN << "-" >> \o SubSeq(s, 2, Len(s) - 1)
    ELSE s

\* lines 623-630, one cell
S8NumCell(s) ==
    LET y == SelectSeq(ParensToMinus(Remove(s, { ",", " " })),
                       LAMBDA c : c \in DOMAIN DigitVal \cup { ".", "-" })
    IN  IF y = << >> THEN NaN ELSE ToNumeric(y)

s8_num(x) ==
    IF IsNumericDtype(x) THEN [ i \in 1..Len(x) |-> ToNumeric(x[i]) ]
    ELSE [ i \in 1..Len(x) |-> S8NumCell(x[i]) ]

\* lines 913-921, one cell: "%" and "," removed, "(" written "-", ")" removed
ExpectedColCell(s) ==
    ToNumeric(Remove(Replace(Remove(Remove(s, { "%" }), { "," }), "(", "-"), { ")" }))

\* the cells: an amount, optionally in accounting parentheses, with a
\* currency symbol before the amount or before the parentheses, or a "%"
NumAmounts == { << "5" >>, << "1", "2" >>, << "1", ",", "2", "3", "4" >>, << "2", ".", "5" >> }

CellShapes == [ amount : NumAmounts, parens : BOOLEAN,
                mark : { "none", "$ outside", "$ inside", "%" } ]

CellText(shape) ==
    LET inner == (IF shape.mark = "$ inside" THEN << "$" >> ELSE << >>)
                     \o shape.amount
                     \o (IF shape.mark = "%" THEN << "%" >> ELSE << >>)
        body  == IF shape.parens THEN << "(" >> \o inner \o << ")" >> ELSE inner
    IN  (IF shape.mark = "$ outside" THEN << "$" >> ELSE << >>) \o body

NumCells == { CellText(shape) : shape \in CellShapes }

\* s8_num(fees[c]) and its like (lines 676, 701, 741, 742, 813)
S8Num ==
    /\ pc = "s8_num"
    /\ result' = s8_num(Column(csv, "VALUE"))
    /\ pc' = "done"
    /\ UNCHANGED << csv, result2, text, head, seps, runVars, tableVars, kpi, probVars >>

\* _read_csv_smart, "if expected_cols:" (lines 910-922)
ExpectedColsCoercion ==
    /\ pc = "expected_cols"
    /\ result' = [ i \in 1..Len(csv) |-> ExpectedColCell(csv[i].VALUE) ]
    /\ pc' = "done"
    /\ UNCHANGED << csv, result2, text, head, seps, runVars, tableVars, kpi, probVars >>

(***************************************************************************)
(* SpecNum: both coercions on every column of up to MaxNumRows cells.      *)
(***************************************************************************)
InitNum ==
    /\ pc \in { "s8_num", "expected_cols" }
    /\ csv \in SeqsUpTo([ VALUE : NumCells ], MaxNumRows)
    /\ result = << >>
    /\ result2 = << >>
    /\ text = << >> /\ head = << >> /\ seps = << >>
    /\ IdleRun /\ IdleTables /\ IdleKpi /\ IdleProb

NextNum == S8Num \/ ExpectedColsCoercion

SpecNum == InitNum /\ [][NextNum]_vars

\* the number a cell denotes: its amount without the thousands separators,
\* negated when the cell is in accounting parentheses
Denoted(s) ==
    LET shape == CHOOSE sh \in CellShapes : CellText(sh) = s
        n     == ToNumeric(Remove(shape.amount, { "," }))
    IN  IF shape.parens THEN RatSub(Num(0), n) ELSE n

\* C19 (as claimed): s8_num and the expected_cols coercion of _read_csv_smart
\* map every cell to the number it denotes: thousands separators, percent
\* signs and currency symbols removed, a parenthesised amount negated, also
\* next to a currency symbol ('$(1,234)' -> -1234, '$5' -> 5, '12%' -> 12).
C19_CoercionDenotes ==
    pc = "done" => \A i \in 1..Len(csv) : result[i] = Denoted(csv[i].VALUE)


-----------------------------------------------------------------------------
(***************************************************************************)
(* The fee column and its consumers: section 8 (lines 556-565, on          *)
(* fees_activity.csv), the panel of the first Section 8 (lines 666-680,    *)
(* 816, on fees_activity.csv) and the panel of the second (lines 949-960,  *)
(* 1064-1070, on eth_price.csv).  A row of the file is a record whose      *)
(* fields are the columns of the header; the file has one row per month.   *)
(***************************************************************************)
MaxSynRows == 2

FeeNames == { "AVG_FEE_USD", "AVG_TX_FEE_USD" }

SynFees == { Num(1), Num(2), Num(3) }

\* a row of a file whose fee column is called name
SynRows(name) ==
    { [ c \in { "MONTH", name } |-> IF c = "MONTH" THEN m ELSE v ] :
        m \in FeeMonths, v \in SynFees }

\* the tables of 1..MaxSynRows rows whose fee column is called name
SynFiles(name) ==
    { t \in SeqsUpTo(SynRows(name), MaxSynRows) :
        /\ t # << >>
        /\ \A i, j \in 1..Len(t) : i # j => t[i].MONTH # t[j].MONTH }

Columns(df) == DOMAIN df[1]

\* groupby("MONTH", as_index=False)[col].mean(), ascending by MONTH
MeanByMonth(df, col) ==
    LET months == SortedMonths(MonthsOf(df))
    IN  [ j \in 1..Len(months) |->
            [ MONTH |-> months[j],
              fee   |-> MeanSkipNa(Column(RowsWhere(df, "MONTH", months[j]), col)) ] ]

FeeConsumers == { "section 8", "first Section 8", "second Section 8" }

FeeDone(values) ==
    /\ result' = values
    /\ pc' = << pc[1], "done" >>
    /\ exc' = exc

FeeRaises(type) ==
    /\ exc' = [ type |-> type, at |-> pc[1] ]
    /\ pc' = << pc[1], "done" >>
    /\ result' = result

\* lines 558-561: agg({"USERS_MILLIONS": "sum", "AVG_FEE_USD": "mean"}) reads
\* the column by this one name
Section8FeeKpi ==
    /\ pc = << "section 8", "call" >>
    /\ IF "AVG_FEE_USD" \in Columns(csv)
       THEN FeeDone(MeanByMonth(csv, "AVG_FEE_USD"))
       ELSE FeeRaises("KeyError")
    /\ UNCHANGED << files, loaded, msgs, csv, result2, text, head, seps,
                    tableVars, kpi, probVars >>

\* lines 666-680 and 816: both names are renamed AVG_FEE, then the monthly
\* mean goes to the panel
S8FirstPanelFee ==
    /\ pc = << "first Section 8", "call" >>
    /\ LET c == CHOOSE n \in Columns(csv) : n \in { "AVG_FEE_USD", "AVG_TX_FEE_USD" }
       IN  FeeDone(MeanByMonth(csv, c))
    /\ UNCHANGED << files, loaded, msgs, csv, result2, text, head, seps,
                    tableVars, kpi, probVars >>

\* lines 1064-1065: df_base[["MONTH", "ACTIVITY_INDEX", "AVG_TX_FEE_USD",
\* "AVG_ETH_PRICE_USD"]] reads the column by this one name; df_base is sorted
\* by MONTH (line 960)
S8SecondPanelFee ==
    /\ pc = << "second Section 8", "call" >>
    /\ IF "AVG_TX_FEE_USD" \in Columns(csv)
       THEN LET d == SortStable(csv, << "MONTH" >>)
            IN  FeeDone([ i \in 1..Len(d) |->
                            [ MONTH |-> d[i].MONTH, fee |-> d[i].AVG_TX_FEE_USD ] ])
       ELSE FeeRaises("KeyError")
    /\ UNCHANGED << files, loaded, msgs, csv, result2, text, head, seps,
                    tableVars, kpi, probVars >>

(***************************************************************************)
(* SpecFee: every consumer of the fee column on every file, under either   *)
(* name of the column.                                                     *)
(***************************************************************************)
InitFee ==
    /\ pc \in FeeConsumers \X { "call" }
    /\ csv \in UNION { SynFiles(name) : name \in FeeNames }
    /\ result = << >>
    /\ result2 = << >>
    /\ text = << >> /\ head = << >> /\ seps = << >>
    /\ IdleRun /\ IdleTables /\ IdleKpi /\ IdleProb

NextFee == Section8FeeKpi \/ S8FirstPanelFee \/ S8SecondPanelFee

SpecFee == InitFee /\ [][NextFee]_vars

\* the fee values of the file by month, whatever the column is called
FeeOfFile ==
    MeanByMonth(csv, CHOOSE n \in Columns(csv) : n \in FeeNames)

\* C20 (as claimed): whichever of AVG_TX_FEE_USD and AVG_FEE_USD the file
\* calls its fee column, every consumer (section 8 fee KPI, first Section 8
\* panel, second Section 8 panel) gets the fee values of the file.
C20_SynonymsGiveSameValues ==
    pc \in FeeConsumers \X { "done" } => (exc = NoExc /\ result = FeeOfFile)


-----------------------------------------------------------------------------
(***************************************************************************)
(* The monthly panels of the two Section 8 blocks.  The MONTH cell of a    *)
(* file row is a text as in the loader model, a numeric cell the sequence  *)
(* of its characters.  rates_expectations.csv and fedfunds_history.csv are *)
(* absent, and in the first block eth_price.csv too: their frames are      *)
(* empty and add no rows to a panel.                                       *)
(***************************************************************************)
MaxPanelRows == 2

\* numeric cells: two numbers and a text that is no number
PanelCells == { << "1" >>, << "3" >>, << "n", "/", "a" >> }

FeeFileRows == [ MONTH : YmdTexts, AVG_FEE_USD : PanelCells, ACTIVITY_INDEX : { << "1" >> } ]
EtfFileRows == [ MONTH : YmdTexts, ETF_NET_FLOW_USD_MILLIONS : PanelCells ]
BaseFileRows == [ MONTH : YmdTexts, ACTIVITY_INDEX : PanelCells ]

RECURSIVE Concat(_)
Concat(ss) == IF ss = << >> THEN << >> ELSE Head(ss) \o Concat(Tail(ss))

\* a row of missing values in the columns cols
NaNRow(cols) == [ c \in cols |-> NaN ]

\* the rows of left.merge(right, on="MONTH") at month m: every left row with
\* every right row, a side without rows at m filled with NaN
JoinAt(left, right, m, lcols, rcols) ==
    LET ls == RowsWhere(left, "MONTH", m)
        rs == RowsWhere(right, "MONTH", m)
    IN  IF rs = << >> THEN [ i \in 1..Len(ls) |-> ls[i] @@ NaNRow(rcols) ]
        ELSE IF ls = << >> THEN [ k \in 1..Len(rs) |-> rs[k] @@ NaNRow(lcols) ]
        ELSE Concat([ i \in 1..Len(ls) |-> [ k \in 1..Len(rs) |-> ls[i] @@ rs[k] ] ])

\* left.merge(right, on="MONTH", how=...) of frames without NaT keys: "outer"
\* gives the months of both sides in ascending order, "left" the left rows in
\* their order
MergeOnMonth(left, right, how, lcols, rcols) ==
    IF how = "outer"
    THEN LET months == SortedMonths(MonthsOf(left) \cup MonthsOf(right))
         IN  Concat([ j \in 1..Len(months) |->
                        JoinAt(left, right, months[j], lcols, rcols) ])
    ELSE Concat([ i \in 1..Len(left) |->
                    JoinAt(<< left[i] >>, right, left[i].MONTH, lcols, rcols) ])

\* lines 657-680: MONTH to month start, AVG_FEE_USD renamed AVG_FEE, s8_num,
\* monthly mean of every metric
S8FeesMonthly(fees_df) ==
    LET fee == s8_num(Column(fees_df, "AVG_FEE_USD"))
        act == s8_num(Column(fees_df, "ACTIVITY_INDEX"))
        f   == [ i \in 1..Len(fees_df) |->
                   [ MONTH          |-> s8_month_start(fees_df[i].MONTH),
                     AVG_FEE        |-> fee[i],
                     ACTIVITY_INDEX |-> act[i] ] ]
        months == SortedMonths(MonthsOf(f))
    IN  [ j \in 1..Len(months) |->
            LET g == RowsWhere(f, "MONTH", months[j])
            IN  [ MONTH          |-> months[j],
                  AVG_FEE        |-> MeanSkipNa(Column(g, "AVG_FEE")),
                  ACTIVITY_INDEX |-> MeanSkipNa(Column(g, "ACTIVITY_INDEX")) ] ]

\* lines 684-702: MONTH to month start, s8_num of the flow column, monthly sum
S8EtfMonthly(etf_df) ==
    LET flow == s8_num(Column(etf_df, "ETF_NET_FLOW_USD_MILLIONS"))
        e    == [ i \in 1..Len(etf_df) |->
                    [ MONTH          |-> s8_month_start(etf_df[i].MONTH),
                      ETF_NET_FLOW_M |-> flow[i] ] ]
        months == SortedMonths(MonthsOf(e))
    IN  [ j \in 1..Len(months) |->
            [ MONTH          |-> months[j],
              ETF_NET_FLOW_M |->
                  SumSkipNa(Column(RowsWhere(e, "MONTH", months[j]), "ETF_NET_FLOW_M")) ] ]

\* lines 816-827: the outer merge of the frames that are not empty, sorted
S8Panel1(fees, etf) ==
    IF fees = << >> THEN etf
    ELSE IF etf = << >> THEN fees
    ELSE MergeOnMonth(fees, etf, "outer",
                      { "AVG_FEE", "ACTIVITY_INDEX" }, { "ETF_NET_FLOW_M" })

\* lines 850-851: .diff() and x - x.shift(3) of ACTIVITY_INDEX
WithDeltas(panel) ==
    [ i \in 1..Len(panel) |->
        panel[i] @@
        [ ACT_DELTA_1M |-> IF i > 1
                           THEN RatSub(panel[i].ACTIVITY_INDEX, panel[i - 1].ACTIVITY_INDEX)
                           ELSE NaN,
          ACT_DELTA_3M |-> IF i > 3
                           THEN RatSub(panel[i].ACTIVITY_INDEX, panel[i - 3].ACTIVITY_INDEX)
                           ELSE NaN ] ]

\* f"{k:,.2f}" if pd.notna(k) else "—"
FmtOrDash(k) == IF IsNaN(k) THEN [ kind |-> "dash", val |-> NaN ] ELSE FmtFixed(k, 2)

\* lines 853-866: the KPIs of the last row of the panel
S8Kpis(panel) ==
    LET last == panel[Len(panel)]
    IN  [ sec       |-> "first Section 8",
          last      |-> last,
          k_act     |-> last.ACTIVITY_INDEX,
          k_act3    |-> last.ACT_DELTA_3M,
          k_fee     |-> last.AVG_FEE,
          act_text  |-> FmtOrDash(last.ACTIVITY_INDEX),
          act3_text |-> FmtOrDash(last.ACT_DELTA_3M),
          fee_text  |-> FmtOrDash(last.AVG_FEE) ]

\* first Section 8, lines 655-866, on fees_activity.csv and etf_flows.csv
S8FirstPanel ==
    /\ pc = << "first Section 8", "call" >>
    /\ pc' = << "first Section 8", "done" >>
    /\ LET fees  == S8FeesMonthly(df_fees)
           etf   == S8EtfMonthly(df_etf)
           panel == S8Panel1(fees, etf)
       IN  CASE panel = << >> ->
                  /\ msgs' = msgs \cup { << "info", "Section 8: data missing", "" >> }
                  /\ UNCHANGED << result, kpi, exc >>
             [] panel # << >> /\ fees = << >> ->
                  \* line 850: the panel has no ACTIVITY_INDEX column
                  /\ exc' = [ type |-> "KeyError", at |-> "first Section 8" ]
                  /\ result' = panel
                  /\ UNCHANGED << kpi, msgs >>
             [] OTHER ->
                  /\ result' = WithDeltas(panel)
                  /\ kpi' = S8Kpis(WithDeltas(panel))
                  /\ UNCHANGED << exc, msgs >>
    /\ UNCHANGED << files, loaded, csv, result2, text, head, seps, tableVars, probVars >>

\* lines 949-960 (df_base) and 963-976 (df_etf): the expected columns coerced,
\* MONTH to month start, rows without MONTH dropped; no monthly aggregation
SmartFrame(rows, col) ==
    DropNaT([ i \in 1..Len(rows) |->
                [ c \in { "MONTH", col } |->
                    IF c = "MONTH" THEN _month_start(rows[i].MONTH)
                    ELSE ExpectedColCell(rows[i][col]) ] ])

\* second Section 8, lines 949-1083, on eth_price.csv and etf_flows.csv:
\* df_base left-merged with df_etf and with the empty monthly_dir
S8SecondPanel ==
    /\ pc = << "second Section 8", "call" >>
    /\ pc' = << "second Section 8", "done" >>
    /\ \E df_base \in SortValuesMonth(SmartFrame(df_eth, "ACTIVITY_INDEX")) :
         LET etf    == SmartFrame(df_etf, "ETF_NET_FLOW_USD_MILLIONS")
             merged == MergeOnMonth(
                           MergeOnMonth(df_base, etf, "left", { "ACTIVITY_INDEX" },
                                        { "ETF_NET_FLOW_USD_MILLIONS" }),
                           << >>, "left", { }, { "Cut", "Hold", "Hike" })
         IN  \E panel \in SortValuesMonth(merged) :
               /\ result' = panel
               /\ kpi' = IF panel = << >>
                         THEN [ sec |-> "second Section 8", k1 |-> NaN, k3 |-> NaN ]
                         ELSE [ sec |-> "second Section 8",
                                k1  |-> panel[Len(panel)].ACTIVITY_INDEX,
                                k3  |-> panel[Len(panel)].ETF_NET_FLOW_USD_MILLIONS ]
    /\ UNCHANGED << runVars, csv, result2, text, head, seps, tableVars, probVars >>

(***************************************************************************)
(* SpecPanel: both panels on every pair of files of up to MaxPanelRows     *)
(* rows.                                                                   *)
(***************************************************************************)
InitPanel1 ==
    /\ pc = << "first Section 8", "call" >>
    /\ df_fees \in SeqsUpTo(FeeFileRows, MaxPanelRows)
    /\ df_etf \in SeqsUpTo(EtfFileRows, MaxPanelRows)
    /\ df_eth = << >>

InitPanel2 ==
    /\ pc = << "second Section 8", "call" >>
    /\ df_eth \in SeqsUpTo(BaseFileRows, MaxPanelRows)
    /\ df_etf \in SeqsUpTo(EtfFileRows, MaxPanelRows)
    /\ df_fees = << >>

InitPanel ==
    /\ InitPanel1 \/ InitPanel2
    /\ df_rates = << >> /\ df_fed = << >>
    /\ df_volcat = << >> /\ df_active = << >> /\ df_typology = << >>
    /\ df_dex = << >> /\ df_bridge = << >>
    /\ metric = "Avg Daily Active Addresses"
    /\ IdleRun /\ IdleDelim /\ IdleKpi /\ IdleProb

NextPanel == S8FirstPanel \/ S8SecondPanel

SpecPanel == InitPanel /\ [][NextPanel]_vars

(***************************************************************************)
(* Claims about the panels (SpecPanel).                                    *)
(***************************************************************************)
PanelDone == pc[2] = "done" /\ exc = NoExc

\* C21 (as claimed): the panel of the first and of the second Section 8 has
\* one row per month, also when a file has several rows for one month.
C21_OneRowPerMonth ==
    PanelDone =>
        \A i, j \in 1..Len(result) : i # j => result[i].MONTH # result[j].MONTH


-----------------------------------------------------------------------------
(***************************************************************************)
(* The monthly aggregates, each on its own file: the section 2 sums on     *)
(* active_addresses.csv as load_active_activity returns it, the section 8  *)
(* sum and mean on fees_activity.csv as read_csv returns it, and the fee   *)
(* means and ETF sums of the first Section 8 on the text cells of          *)
(* fees_activity.csv and etf_flows.csv.                                    *)
(***************************************************************************)
MaxAggRows == 2

\* numeric cells: two numbers, a text without digits and a spreadsheet error
DivByZeroCell == << "#", "D", "I", "V", "/", "0", "!" >>
AggCells == PanelCells \cup { DivByZeroCell }

AggActiveRows == [ MONTH : YmTexts, SECTOR : ActSectors,
                   AVG_DAILY_ACTIVE_ADDRESSES : AggCells, TRANSACTIONS : { << "3" >> } ]
AggFeeRows == [ MONTH : YmdTexts, AVG_FEE_USD : AggCells, ACTIVITY_INDEX : { << "1" >> } ]
AggEtfRows == [ MONTH : YmdTexts, ETF_NET_FLOW_USD_MILLIONS : AggCells ]

\* lines 181-182: pd.to_numeric(errors="coerce") of the two numeric columns
LoadActiveNumeric(rows) ==
    [ i \in 1..Len(rows) |->
        [ rows[i] EXCEPT !.AVG_DAILY_ACTIVE_ADDRESSES = ToNumeric(@),
                         !.TRANSACTIONS = ToNumeric(@) ] ]

\* load_active_activity (lines 178-186), then the table of section 2
\* (lines 255-265)
ActiveMonthly(rows) ==
    SumByMonthSector(ReplaceNft(LoadActiveFrame(LoadActiveNumeric(rows))))

AggPipelines == { "section 2", "section 8", "fees", "etf" }

\* the input table of the pipeline under study
AggInput ==
    CASE pc[1] = "section 2" -> df_active
      [] pc[1] = "etf"       -> df_etf
      [] OTHER               -> df_fees

\* the monthly table a pipeline makes of its input table
Aggregate(pipeline, rows) ==
    CASE pipeline = "section 2" -> ActiveMonthly(rows)
      [] pipeline = "section 8" -> FeesByMonth(rows)
      [] pipeline = "fees"      -> S8FeesMonthly(rows)
      [] OTHER                  -> S8EtfMonthly(rows)

AggDone(table) ==
    /\ result' = table
    /\ pc' = << pc[1], "done" >>
    /\ UNCHANGED << runVars, csv, result2, text, head, seps, tableVars, kpi, probVars >>

ActiveSums == pc = << "section 2", "call" >> /\ AggDone(Aggregate("section 2", df_active))
Section8Agg == pc = << "section 8", "call" >> /\ AggDone(Aggregate("section 8", df_fees))
FeeMeans   == pc = << "fees", "call" >> /\ AggDone(Aggregate("fees", df_fees))
EtfSums    == pc = << "etf", "call" >> /\ AggDone(Aggregate("etf", df_etf))

(***************************************************************************)
(* SpecAgg: every aggregate on every file of up to MaxAggRows rows.        *)
(***************************************************************************)
InitAgg ==
    /\ pc \in AggPipelines \X { "call" }
    /\ df_active \in IF pc[1] = "section 2" THEN SeqsUpTo(AggActiveRows, MaxAggRows)
                     ELSE { << >> }
    /\ df_fees \in CASE pc[1] = "section 8" -> SeqsUpTo(FeeRows, MaxAggRows)
                     [] pc[1] = "fees"      -> SeqsUpTo(AggFeeRows, MaxAggRows)
                     [] OTHER               -> { << >> }
    /\ df_etf \in IF pc[1] = "etf" THEN SeqsUpTo(AggEtfRows, MaxAggRows) ELSE { << >> }
    /\ df_rates = << >> /\ df_fed = << >>
    /\ df_volcat = << >> /\ df_typology = << >> /\ df_dex = << >>
    /\ df_bridge = << >> /\ df_eth = << >>
    /\ metric = "Avg Daily Active Addresses"
    /\ IdleRun /\ IdleDelim /\ IdleKpi /\ IdleProb

NextAgg == ActiveSums \/ Section8Agg \/ FeeMeans \/ EtfSums

SpecAgg == InitAgg /\ [][NextAgg]_vars

(***************************************************************************)
(* Claims about the aggregates (SpecAgg).                                  *)
(***************************************************************************)
\* a cell that writes a number, and the number
ValidCell(cell) == cell \in { << "1" >>, << "3" >> }
CellNumber(cell) == IF cell = << "1" >> THEN Num(1) ELSE Num(3)

\* the numbers of the valid cells of column col in the rows of month text m
\* (and of sector sec, "NFT Transfers" counting as "Others"), by row
ValidAt(rows, col, m, sec) ==
    { i \in 1..Len(rows) :
        /\ s8_month_start(rows[i].MONTH) = m
        /\ sec # "" => (IF rows[i].SECTOR = "NFT Transfers" THEN "Others"
                        ELSE rows[i].SECTOR) = sec
        /\ ValidCell(rows[i][col]) }

RECURSIVE SumCells(_, _, _)
SumCells(rows, col, I) ==
    IF I = { } THEN Num(0)
    ELSE LET i == CHOOSE j \in I : TRUE
         IN  RatAdd(CellNumber(rows[i][col]), SumCells(rows, col, I \ { i }))

MeanCells(rows, col, I) == RatDiv(SumCells(rows, col, I), Num(Cardinality(I)))

\* C22 (as claimed): a cell that is no number is ignored by the aggregates:
\* every section 2 sum and every Section 8 ETF sum is the sum of the valid
\* cells of its month, and every Section 8 fee mean is the mean of the valid
\* cells of its month.
C22_InvalidCellsIgnored ==
    /\ pc = << "section 2", "done" >> =>
         \A j \in 1..Len(result) :
            result[j].AVG_DAILY_ACTIVE_ADDRESSES =
                SumCells(df_active, "AVG_DAILY_ACTIVE_ADDRESSES",
                         ValidAt(df_active, "AVG_DAILY_ACTIVE_ADDRESSES",
                                 result[j].MONTH, result[j].SECTOR))
    /\ pc = << "etf", "done" >> =>
         \A j \in 1..Len(result) :
            result[j].ETF_NET_FLOW_M =
                SumCells(df_etf, "ETF_NET_FLOW_USD_MILLIONS",
                         ValidAt(df_etf, "ETF_NET_FLOW_USD_MILLIONS", result[j].MONTH, ""))
    /\ pc = << "fees", "done" >> =>
         \A j \in 1..Len(result) :
            result[j].AVG_FEE =
                MeanCells(df_fees, "AVG_FEE_USD",
                          ValidAt(df_fees, "AVG_FEE_USD", result[j].MONTH, ""))


\* the arrangements of the rows of a table
RowOrders(df) ==
    { Permuted(df, p) :
        p \in { q \in [ 1..Len(df) -> 1..Len(df) ] :
                  \A i, j \in 1..Len(df) : i # j => q[i] # q[j] } }

-----------------------------------------------------------------------------
(***************************************************************************)
(* The rates pipelines of the two Section 8 blocks, on the rows of         *)
(* rates_expectations.csv (the month of DATE, the bounds of the bucket in  *)
(* bps and PROB, as numbers) and of fedfunds_history.csv (the month of     *)
(* observation_date and the FEDFUNDS cell, as text).                       *)
(***************************************************************************)
MaxRatesRows == 2
MaxFedRows   == 1

RatesMonths == { Date(2025, 6, 1), Date(2025, 7, 1) }
Buckets     == { << Num(375), Num(400) >>, << Num(390), Num(410) >>,
                 << Num(400), Num(425) >>, << NaN, Num(425) >> }
RatesProbs  == { NaN, Num(0), Rat(-1, 4), Rat(3, 4) }
RatesRows   == { [ MONTH |-> m, LOWER_BPS |-> b[1], UPPER_BPS |-> b[2], PROB |-> p ] :
                   m \in RatesMonths, b \in Buckets, p \in RatesProbs }
FedCells    == { << "4" >>, << "4", "0", "0" >>, << "." >>, << >> }
FedRows     == [ MONTH : RatesMonths, FEDFUNDS : FedCells ]

Directions == { "HIKE", "HOLD", "CUT" }

\* a cell of a column pd.read_csv returned: a float (NaN for an empty cell)
\* or, in a column of dtype object, the text of the cell
Float(x)    == [ str |-> FALSE, num |-> x ]
IsNa(v)     == ~v.str /\ IsNaN(v.num)

\* lines 597-599: pd.read_csv infers the dtype of a column: floats when every
\* cell is a number or empty, else the texts as they are
ReadCsvColumn(x) ==
    LET numeric == \A i \in 1..Len(x) : x[i] = << >> \/ ~IsNaN(ToNumeric(x[i]))
    IN  [ i \in 1..Len(x) |->
            IF numeric \/ x[i] = << >> THEN Float(ToNumeric(x[i]))
            ELSE [ str |-> TRUE, num |-> NaN ] ]

\* line 762 / line 1015: the midpoint of the bucket
MIDPOINT(row) == RatDiv(RatAdd(row.LOWER_BPS, row.UPPER_BPS), Num(2))

\* lines 744-762: PROB scaled to [0, 1] when a value exceeds 1, MIDPOINT added
S8RatesFrame(rates_df) ==
    LET prob == NormalizeProbS8a(Column(rates_df, "PROB"))
    IN  [ i \in 1..Len(rates_df) |->
            [ MONTH |-> rates_df[i].MONTH, PROB |-> prob[i],
              MIDPOINT |-> MIDPOINT(rates_df[i]) ] ]

\* line 768: r.merge(f[["MONTH", "FEDFUNDS"]], on="MONTH", how="left"): every
\* row of r with the FEDFUNDS of every row of f of its month, NaN without one
AttachFed(r, f) ==
    Concat([ i \in 1..Len(r) |->
              LET fs == RowsWhere(f, "MONTH", r[i].MONTH)
              IN  IF fs = << >> THEN << r[i] @@ [ FEDFUNDS |-> Float(NaN) ] >>
                  ELSE [ k \in 1..Len(fs) |-> r[i] @@ [ FEDFUNDS |-> fs[k].FEDFUNDS ] ] ])

\* Series.idxmax(): the first row holding the largest value, NaN skipped
IdxMax(col) ==
    CHOOSE i \in 1..Len(col) :
        /\ ~IsNaN(col[i])
        /\ \A k \in 1..Len(col) : ~IsNaN(col[k]) => RatLe(col[k], col[i])
        /\ \A k \in 1..(i - 1) : IsNaN(col[k]) \/ RatLt(col[k], col[i])

\* lines 788-790
Compare(target, current) ==
    IF RatGt(target, current) THEN "HIKE"
    ELSE IF RatLt(target, current) THEN "CUT" ELSE "HOLD"

\* lines 770-790, g the rows of one month; has_fed: r has a FEDFUNDS column.
\* A float compared with a text raises TypeError.
_pick_mode(g, has_fed) ==
    LET equal   == [ i \in 1..Len(g) |-> [ g[i] EXCEPT !.PROB = Rat(1, Len(g)) ] ]
        gg      == SelectSeq(IF \A i \in 1..Len(g) : IsNaN(g[i].PROB) THEN equal ELSE g,
                             LAMBDA row : ~IsNaN(row.PROB))
        peak    == gg[IdxMax(Column(gg, "PROB"))]
        target  == peak.MIDPOINT
        current == IF has_fed THEN gg[1].FEDFUNDS ELSE Float(NaN)
        prob    == peak.PROB
    IN  IF gg = << >> THEN [ RATES_DIR |-> "HOLD", RATES_PROB |-> NaN ]
        ELSE IF IsNaN(target) \/ IsNa(current)
             THEN [ RATES_DIR |-> "HOLD", RATES_PROB |-> prob ]
        ELSE IF current.str THEN [ RATES_DIR |-> "TypeError", RATES_PROB |-> prob ]
        ELSE [ RATES_DIR |-> Compare(target, current.num), RATES_PROB |-> prob ]

\* lines 764-768 and 792-795: FEDFUNDS attached when fedfunds_history.csv has
\* rows, then _pick_mode applied to the rows of every month
S8Rates(rates_df, fed_df) ==
    LET f      == [ i \in 1..Len(fed_df) |->
                      [ MONTH    |-> fed_df[i].MONTH,
                        FEDFUNDS |-> ReadCsvColumn(Column(fed_df, "FEDFUNDS"))[i] ] ]
        r0     == S8RatesFrame(rates_df)
        r      == IF fed_df # << >> THEN AttachFed(r0, f) ELSE r0
        months == SortedMonths(MonthsOf(r))
    IN  [ j \in 1..Len(months) |->
            [ MONTH |-> months[j] ]
              @@ _pick_mode(RowsWhere(r, "MONTH", months[j]), fed_df # << >>) ]

\* first Section 8, lines 704-795: the monthly rates mode; an exception of
\* _pick_mode ends the script
S8FirstRates ==
    /\ pc = << "first rates", "call" >>
    /\ pc' = << "first rates", "done" >>
    /\ LET rates == S8Rates(df_rates, df_fed)
       IN  IF \E j \in 1..Len(rates) : rates[j].RATES_DIR = "TypeError"
           THEN /\ exc' = [ type |-> "TypeError", at |-> "_pick_mode" ]
                /\ UNCHANGED << result, kpi >>
           ELSE /\ result' = rates
                /\ kpi' = [ sec |-> "first rates" ]
                /\ UNCHANGED exc
    /\ UNCHANGED << files, loaded, msgs, csv, result2, text, head, seps, tableVars,
                    probVars >>


\* lines 1039-1042, one row: np.where of the midpoint in bps against
\* FEDFUNDS * 100 bps with a band of 5 bps; a comparison with NaN is False
DIR(midpoint_bps, fedfunds) ==
    IF RatLt(midpoint_bps, RatSub(RatMul(fedfunds, Num(100)), Num(5))) THEN "Cut"
    ELSE IF RatGt(midpoint_bps, RatAdd(RatMul(fedfunds, Num(100)), Num(5))) THEN "Hike"
    ELSE "Hold"

DirColumns == << "Cut", "Hold", "Hike" >>

\* lines 1006-1017 and 1037-1042: PROB scaled, MIDPOINT_BPS added, FEDFUNDS
\* of the month attached (line 1030: coerced to a number), DIR labelled
LabelledRates(rates, fed) ==
    LET prob == NormalizeProbS8b(Column(rates, "PROB"))
        r0   == [ i \in 1..Len(rates) |->
                    [ MONTH |-> rates[i].MONTH, PROB |-> prob[i],
                      MIDPOINT_BPS |-> MIDPOINT(rates[i]) ] ]
        f    == [ i \in 1..Len(fed) |->
                    [ MONTH |-> fed[i].MONTH,
                      FEDFUNDS |-> Float(ToNumeric(fed[i].FEDFUNDS)) ] ]
        r    == AttachFed(r0, f)
    IN  [ i \in 1..Len(r) |->
            [ MONTH |-> r[i].MONTH, PROB |-> r[i].PROB,
              DIR |-> DIR(r[i].MIDPOINT_BPS, r[i].FEDFUNDS.num) ] ]

\* the rows of month m labelled dir
DirRows(t, m, dir) == SelectSeq(t, LAMBDA row : row.MONTH = m /\ row.DIR = dir)

\* lines 1045-1056, one cell of the pivot: the share of direction dir in
\* month m, by summed PROB or (no PROB at all) by number of buckets; NaN
\* when the month's total is not positive
MonthShare(t, m, dir, by_prob) ==
    LET part  == IF by_prob THEN SumSkipNa(Column(DirRows(t, m, dir), "PROB"))
                 ELSE Num(Len(DirRows(t, m, dir)))
        sum_m == IF by_prob THEN SumSkipNa(Column(RowsWhere(t, "MONTH", m), "PROB"))
                 ELSE Num(Len(RowsWhere(t, "MONTH", m)))
    IN  IF RatGt(sum_m, Num(0)) THEN RatDiv(part, sum_m) ELSE NaN

\* lines 1045-1059: monthly_dir of the labelled rows t, one row per month; a
\* direction no row of the table has gets 0.0, a direction the month does
\* not have NaN
MonthlyDir(t) ==
    LET by_prob == \E i \in 1..Len(t) : ~IsNaN(t[i].PROB)
        months  == SortedMonths(MonthsOf(t))
    IN  [ j \in 1..Len(months) |->
            [ c \in { "MONTH", "Cut", "Hold", "Hike" } |->
                IF c = "MONTH" THEN months[j]
                ELSE IF \A i \in 1..Len(t) : t[i].DIR # c THEN Num(0)
                ELSE IF DirRows(t, months[j], c) = << >> THEN NaN
                ELSE MonthShare(t, months[j], c, by_prob) ] ]

\* fillna(0.0)
FillNa0(x) == IF IsNaN(x) THEN Num(0) ELSE x

\* lines 1079-1081: max(trio, key=trio.get) over Cut, Hold, Hike in this
\* order: the first of the largest
TopDir(row) ==
    LET i == CHOOSE i \in 1..3 :
                 /\ \A k \in 1..3 : RatLe(FillNa0(row[DirColumns[k]]), FillNa0(row[DirColumns[i]]))
                 /\ \A k \in 1..(i - 1) :
                        RatLt(FillNa0(row[DirColumns[k]]), FillNa0(row[DirColumns[i]]))
    IN  [ top_dir |-> DirColumns[i], top_p |-> FillNa0(row[DirColumns[i]]) ]

\* second Section 8, lines 981-1083, on eth_price.csv, rates_expectations.csv
\* and fedfunds_history.csv: the labelled rows (lines 1036-1042), monthly_dir
\* (empty when a file has no row, line 1061), the panel and the top direction
\* of its latest row
S8SecondRates ==
    /\ pc = << "second rates", "call" >>
    /\ pc' = << "second rates", "done" >>
    /\ \E fed \in SortValuesMonth(df_fed) :
       \E df_base \in SortValuesMonth(SmartFrame(df_eth, "ACTIVITY_INDEX")) :
       \E labelled \in { LabelledRates(df_rates, fed) } :
       \E monthly_dir \in { IF df_rates = << >> \/ fed = << >> THEN << >>
                            ELSE MonthlyDir(labelled) } :
       \E merged \in { MergeOnMonth(df_base, monthly_dir, "left",
                                    { "ACTIVITY_INDEX" }, { "Cut", "Hold", "Hike" }) } :
       \E panel \in SortValuesMonth(merged) :
         /\ result' = monthly_dir
         /\ kpi' = IF panel = << >>
                   THEN [ sec |-> "second rates", latest_row |-> << >>,
                          top_dir |-> "-", top_p |-> NaN ]
                   ELSE [ sec |-> "second rates",
                          latest_row |-> << panel[Len(panel)] >> ]
                        @@ TopDir(panel[Len(panel)])
    /\ UNCHANGED << runVars, csv, result2, text, head, seps, tableVars, probVars >>

(***************************************************************************)
(* SpecRates: both rates pipelines on every pair of files of up to         *)
(* MaxRatesRows and MaxFedRows rows.                                       *)
(***************************************************************************)
RatesBaseRows == [ MONTH : YmTexts, ACTIVITY_INDEX : { << "1" >> } ]

InitRates ==
    /\ pc \in { "first rates", "second rates" } \X { "call" }
    /\ df_rates \in SeqsUpTo(RatesRows, MaxRatesRows)
    /\ df_fed \in SeqsUpTo(FedRows, MaxFedRows)
    /\ df_eth \in IF pc[1] = "second rates" THEN SeqsUpTo(RatesBaseRows, MaxRatesRows)
                  ELSE { << >> }
    /\ df_volcat = << >> /\ df_active = << >> /\ df_typology = << >>
    /\ df_dex = << >> /\ df_bridge = << >> /\ df_fees = << >> /\ df_etf = << >>
    /\ metric = "Avg Daily Active Addresses"
    /\ IdleRun /\ IdleDelim /\ IdleKpi /\ IdleProb

NextRates == S8FirstRates \/ S8SecondRates

SpecRates == InitRates /\ [][NextRates]_vars


(***************************************************************************)
(* Claims about the rates pipelines (SpecRates).                           *)
(***************************************************************************)
\* the same direction in the spelling of the first and of the second pipeline
SameDirection(a, b) ==
    << a, b >> \in { << "HIKE", "Hike" >>, << "HOLD", "Hold" >>, << "CUT", "Cut" >> }

\* C24 (as claimed): the first pipeline's _pick_mode and the second
\* pipeline's DIR put the same (bucket midpoint, FEDFUNDS) pair into the same
\* direction: for a month with one bucket and one FEDFUNDS value the
\* RATES_DIR of the first pipeline is the DIR of the second.
C24_SameDirection ==
    ( /\ pc = << "first rates", "done" >> /\ exc = NoExc
      /\ Len(df_rates) = 1 /\ Len(df_fed) = 1
      /\ df_rates[1].MONTH = df_fed[1].MONTH )
    => SameDirection(result[1].RATES_DIR, LabelledRates(df_rates, df_fed)[1].DIR)


\* the direction the rule gives a bucket midpoint against the month's rate
RuleDirection(midpoint, fedfunds) ==
    IF IsNaN(midpoint) \/ IsNaN(fedfunds) \/ midpoint = fedfunds THEN "HOLD"
    ELSE IF RatGt(midpoint, fedfunds) THEN "HIKE" ELSE "CUT"

\* the FEDFUNDS of month m in fedfunds_history.csv, NaN when it has none
FedFundsOf(m) ==
    LET fs == RowsWhere(df_fed, "MONTH", m)
    IN  IF fs = << >> THEN NaN ELSE ToNumeric(fs[1].FEDFUNDS)

\* C28 (as claimed): _pick_mode returns, for every month of
\* rates_expectations.csv, a RATES_DIR in {HIKE, HOLD, CUT}: the direction
\* of a bucket with the largest PROB of the month against the month's
\* FEDFUNDS (HOLD when either is missing or they are equal), with RATES_PROB
\* that largest PROB, or 1/n when the month has no PROB at all.
C28_PickModeRule ==
    pc = << "first rates", "done" >> =>
        /\ exc = NoExc
        /\ { result[j].MONTH : j \in 1..Len(result) } = MonthsOf(df_rates)
        /\ \A j \in 1..Len(result) :
             LET g      == RowsWhere(S8RatesFrame(df_rates), "MONTH", result[j].MONTH)
                 noprob == \A i \in 1..Len(g) : IsNaN(g[i].PROB)
                 best   == { i \in 1..Len(g) :
                               noprob \/ ( /\ ~IsNaN(g[i].PROB)
                                           /\ \A k \in 1..Len(g) :
                                                IsNaN(g[k].PROB) \/ RatLe(g[k].PROB, g[i].PROB) ) }
             IN  /\ result[j].RATES_DIR \in Directions
                 /\ \E i \in best :
                      /\ result[j].RATES_DIR =
                             RuleDirection(g[i].MIDPOINT, FedFundsOf(result[j].MONTH))
                      /\ result[j].RATES_PROB =
                             IF noprob THEN Rat(1, Len(g)) ELSE g[i].PROB


\* the month's total of the second pipeline: its summed PROB, or its number
\* of buckets when the file has no PROB at all
MonthTotal(m) ==
    LET t == RowsWhere(LabelledRates(df_rates, df_fed), "MONTH", m)
    IN  IF \A i \in 1..Len(df_rates) : IsNaN(df_rates[i].PROB) THEN Num(Len(t))
        ELSE SumSkipNa(Column(t, "PROB"))

\* the non-missing Cut / Hold / Hike values of a row of monthly_dir
Present(row) == { c \in { "Cut", "Hold", "Hike" } : ~IsNaN(row[c]) }

\* a row of monthly_dir holds a distribution: every non-missing value in
\* [0, 1], together 1
IsDistribution(row) ==
    /\ \A c \in Present(row) : RatLe(Num(0), row[c]) /\ RatLe(row[c], Num(1))
    /\ RatAdd(FillNa0(row.Cut), RatAdd(FillNa0(row.Hold), FillNa0(row.Hike))) = Num(1)

\* C27 (as claimed): in the second pipeline every month of monthly_dir with a
\* positive total probability has Cut / Hold / Hike values in [0, 1] that sum
\* to 1, and the displayed 'Rates Direction' of a latest month of
\* monthly_dir with a positive total is a direction whose value is the
\* largest of the three.
C27_SharesAreDistribution ==
    pc = << "second rates", "done" >> =>
        /\ \A j \in 1..Len(result) :
             RatGt(MonthTotal(result[j].MONTH), Num(0)) => IsDistribution(result[j])
        /\ ( /\ kpi.latest_row # << >>
             /\ kpi.latest_row[1].MONTH \in MonthsOf(result)
             /\ RatGt(MonthTotal(kpi.latest_row[1].MONTH), Num(0)) )
           => /\ kpi.top_dir \in Present(kpi.latest_row[1])
              /\ kpi.top_p = kpi.latest_row[1][kpi.top_dir]
              /\ \A c \in Present(kpi.latest_row[1]) :
                     RatLe(kpi.latest_row[1][c], kpi.top_p)


-----------------------------------------------------------------------------
(***************************************************************************)
(* Claim about the months section 4 compares (SpecGrowth).                 *)
(***************************************************************************)
\* the row of the earliest / of the latest month of a table whose months
\* are all different
EarliestRow(df) == df[CHOOSE i \in 1..Len(df) : \A k \in 1..Len(df) : df[i].MONTH <= df[k].MONTH]
LatestRow(df)   == df[CHOOSE i \in 1..Len(df) : \A k \in 1..Len(df) : df[k].MONTH <= df[i].MONTH]

DistinctMonths(df) == \A i, k \in 1..Len(df) : i # k => df[i].MONTH # df[k].MONTH

\* C25 (as claimed): section 4's 'Volume Growth (since start)' is the growth
\* from the value of the earliest month to the value of the latest month of
\* dex_volume.csv, whatever the order of its rows.
C25_GrowthEarliestToLatest ==
    (pc = "done" /\ kpi.sec = "4" /\ DistinctMonths(df_dex)) =>
        kpi.growth = Growth(EarliestRow(df_dex).TOTAL_VOLUME_BILLIONS,
                            LatestRow(df_dex).TOTAL_VOLUME_BILLIONS)


-----------------------------------------------------------------------------
(***************************************************************************)
(* SpecMerge: section 2 on every table load_active_activity can return of  *)
(* up to MaxMergeRows rows, a metric missing in some.  The claim about the *)
(* merge of 'NFT Transfers' into 'Others'.                                 *)
(***************************************************************************)
MaxMergeRows == 3

MergeRows == [ MONTH : ActMonths, SECTOR : ActSectors,
               AVG_DAILY_ACTIVE_ADDRESSES : { NaN, Num(1), Num(3) },
               TRANSACTIONS : { Num(2) } ]

InitMerge ==
    /\ pc = "sec2"
    /\ df_active \in { t \in SeqsUpTo(MergeRows, MaxMergeRows) : SortedByMonthSector(t) }
    /\ metric \in Metrics
    /\ df_volcat = << >> /\ df_typology = << >> /\ df_dex = << >>
    /\ df_bridge = << >> /\ df_eth = << >> /\ df_fees = << >> /\ df_etf = << >>
    /\ df_rates = << >> /\ df_fed = << >>
    /\ IdleRun /\ IdleDelim /\ IdleKpi /\ IdleProb

NextMerge == Section2

SpecMerge == InitMerge /\ [][NextMerge]_vars

ActivityColumns == { "AVG_DAILY_ACTIVE_ADDRESSES", "TRANSACTIONS" }

\* the sum of column col over the rows of df of month m in the sectors S
SectorsSum(df, m, S, col) ==
    SumSkipNa(Column(SelectSeq(df, LAMBDA row : row.MONTH = m /\ row.SECTOR \in S), col))

\* C26: section 2's merge of 'NFT Transfers' into 'Others' leaves df_active
\* as it was and gives a table without an 'NFT Transfers' row in which, for
\* every month and both metrics, the total over the sectors is the total of
\* df_active, the 'Others' row is the sum of the former 'Others' and
\* 'NFT Transfers' rows, and every other sector keeps its sum.
C26_NftMergeConservesTotals ==
    [][ (pc = "sec2" /\ df_active # << >>) =>
          /\ df_active' = df_active
          /\ \A j \in 1..Len(kpi'.data) : kpi'.data[j].SECTOR # "NFT Transfers"
          /\ \A m \in MonthsOf(df_active), col \in ActivityColumns :
               /\ SectorsSum(kpi'.data, m, ActSectors, col)
                      = SectorsSum(df_active, m, ActSectors, col)
               /\ SectorsSum(kpi'.data, m, { "Others" }, col)
                      = SectorsSum(df_active, m, { "Others", "NFT Transfers" }, col)
               /\ SectorsSum(kpi'.data, m, { "DEX Trading" }, col)
                      = SectorsSum(df_active, m, { "DEX Trading" }, col)
               /\ Len(Group(kpi'.data, m, "Others")) =
                      IF Group(df_active, m, "Others") = << >>
                         /\ Group(df_active, m, "NFT Transfers") = << >>
                      THEN 0 ELSE 1 ]_vars

\* section 2 ran on a table with an 'Others' and an 'NFT Transfers' row of
\* one month, and its table has their sum in one 'Others' row
C26_Witness ==
    /\ pc = "done" /\ kpi.sec = "2"
    /\ \E i, k \in 1..Len(df_active) :
         /\ df_active[i].MONTH = df_active[k].MONTH
         /\ df_active[i].SECTOR = "Others" /\ df_active[k].SECTOR = "NFT Transfers"
         /\ df_active[i].AVG_DAILY_ACTIVE_ADDRESSES = Num(1)
         /\ df_active[k].AVG_DAILY_ACTIVE_ADDRESSES = Num(3)
         /\ Len(df_active) = 2
         /\ kpi.data = << [ MONTH |-> df_active[i].MONTH, SECTOR |-> "Others",
                            AVG_DAILY_ACTIVE_ADDRESSES |-> Num(4),
                            TRANSACTIONS |-> RatAdd(df_active[i].TRANSACTIONS,
                                                    df_active[k].TRANSACTIONS) ] >>


-----------------------------------------------------------------------------
(***************************************************************************)
(* SpecDelta: the first Section 8 on a fees_activity.csv of up to          *)
(* MaxDeltaRows rows over five months, so that its panel can have a row    *)
(* three rows back and months that are missing.                            *)
(***************************************************************************)
MaxDeltaRows == 4

DeltaMonthTexts == { [ y |-> 2025, m |-> k, d |-> 1 ] : k \in 1..5 }
DeltaFileRows   == [ MONTH : DeltaMonthTexts, AVG_FEE_USD : { << "1" >> },
                     ACTIVITY_INDEX : { << "1" >>, << "3" >> } ]

InitDelta ==
    /\ pc = << "first Section 8", "call" >>
    /\ df_fees \in SeqsUpTo(DeltaFileRows, MaxDeltaRows)
    /\ df_etf = << >> /\ df_eth = << >>
    /\ df_rates = << >> /\ df_fed = << >>
    /\ df_volcat = << >> /\ df_active = << >> /\ df_typology = << >>
    /\ df_dex = << >> /\ df_bridge = << >>
    /\ metric = "Avg Daily Active Addresses"
    /\ IdleRun /\ IdleDelim /\ IdleKpi /\ IdleProb

NextDelta == S8FirstPanel

SpecDelta == InitDelta /\ [][NextDelta]_vars

\* the first day of the month three calendar months before month start ts
ThreeMonthsBefore(ts) ==
    LET k == (ts \div 10000) * 12 + (((ts \div 100) % 100) - 1) - 3
    IN  Date(k \div 12, (k % 12) + 1, 1)

\* the ACTIVITY_INDEX of month m in the panel, NaN when the panel has no
\* row for m
ActivityOf(panel, m) ==
    LET rows == RowsWhere(panel, "MONTH", m)
    IN  IF rows = << >> THEN NaN ELSE rows[1].ACTIVITY_INDEX

\* C29 (as claimed): the 'Δ Activity (3M)' KPI is the activity of the latest
\* month of the panel minus the activity of the month three calendar months
\* before it, also when months are missing from the panel.
C29_DeltaOverThreeMonths ==
    (pc = << "first Section 8", "done" >> /\ exc = NoExc /\ result # << >>) =>
        kpi.k_act3 = RatSub(ActivityOf(result, result[Len(result)].MONTH),
                            ActivityOf(result, ThreeMonthsBefore(result[Len(result)].MONTH)))

====
